---- MODULE Spec2Model ----
(***************************************************************************)
(* A model of parse-mockdb (src/src/parse-mockdb.js): the in-memory store  *)
(* (db, hooks, masks), the four request handlers and the hook runner.      *)
(*                                                                         *)
(* JavaScript values are tagged records, one shape per type, so that two   *)
(* values of different types are comparable and unequal:                   *)
(*   undefined  [undefined |-> TRUE]      null    [null |-> TRUE]          *)
(*   boolean    [bool |-> b]              number  [num |-> n]              *)
(*   string     [str |-> s]               array   [list |-> <<...>>]       *)
(*   Date       [date |-> t]   (a Date object at clock reading t)          *)
(*   object     a function from key strings to values (pointers, update    *)
(*              operations, where clauses and stored records are objects)  *)
(***************************************************************************)
EXTENDS Integers, Sequences, FiniteSets, TLC

\* Bounds of the model.
MaxId == 1        \* ids handed out by _.uniqueId()
MaxTime == 1      \* readings of the clock behind new Date()
MaxLen == 2       \* length of a stored list
MaxHooks == 1     \* hooks registered at the same time

Classes == {"Brand", "Item"}
HookTypes == {"beforeSave", "beforeDelete"}

\* ------------------------------------------------------------------------
\* Values
\* ------------------------------------------------------------------------
Undefined == [undefined |-> TRUE]
Null == [null |-> TRUE]
Bool(b) == [bool |-> b]
Num(n) == [num |-> n]
Str(s) == [str |-> s]
List(s) == [list |-> s]
DateObj(t) == [date |-> t]
\* Date.prototype.toJSON(): the ISO string of the instant; a string, no
\* longer a Date object.
DateToJSON(d) == [str |-> "iso", at |-> d.date]

EmptyObj == [k \in {} |-> Undefined]

IsUndefined(v) == DOMAIN v = {"undefined"}
IsNull(v) == DOMAIN v = {"null"}
IsBool(v) == DOMAIN v = {"bool"}
IsNum(v) == DOMAIN v = {"num"}
IsStr(v) == "str" \in DOMAIN v /\ DOMAIN v \subseteq {"str", "at"}
IsList(v) == DOMAIN v = {"list"}
IsDateObj(v) == DOMAIN v = {"date"}
IsPrimitive(v) == IsUndefined(v) \/ IsNull(v) \/ IsBool(v) \/ IsNum(v) \/ IsStr(v)
\* typeof v === "object" && v !== null, arrays and Date objects excluded
IsPlainObject(v) == ~IsPrimitive(v) /\ ~IsList(v) /\ ~IsDateObj(v)

\* obj[key]: undefined when the key is absent
Get(obj, key) == IF key \in DOMAIN obj THEN obj[key] ELSE Undefined
\* Object.assign(target, source)
Assign(target, source) == source @@ target
\* _.omit(obj, keys)
Omit(obj, keys) == [k \in DOMAIN obj \ keys |-> obj[k]]

\* JavaScript truthiness (!!v)
Truthy(v) ==
    CASE IsUndefined(v) -> FALSE
      [] IsNull(v) -> FALSE
      [] IsBool(v) -> v.bool
      [] IsNum(v) -> v.num # 0
      [] IsStr(v) -> v.str # ""
      [] OTHER -> TRUE

makePointer(className, id) ==
    ("__type" :> Str("Pointer")) @@ ("className" :> Str(className)) @@ ("objectId" :> Str(id))

isOp(object) == IsPlainObject(object) /\ "__op" \in DOMAIN object
isPointer(object) == IsPlainObject(object) /\ Get(object, "__type") = Str("Pointer")
isDate(object) == IsPlainObject(object) /\ Get(object, "__type") = Str("Date")

\* ------------------------------------------------------------------------
\* Equality (objectsAreEqual and the JavaScript == it starts with)
\* ------------------------------------------------------------------------
\* Number(v) for the primitives that convert to a number; strings of the
\* model that are decimal numerals are the ids "1".."9".
NumeralStrs == <<"1", "2", "3", "4", "5", "6", "7", "8", "9">>
IsNumeral(s) == s = "0" \/ \E i \in 1..Len(NumeralStrs) : NumeralStrs[i] = s
NumeralOf(s) == IF s = "0" THEN 0 ELSE CHOOSE i \in 1..Len(NumeralStrs) : NumeralStrs[i] = s
HasNumber(v) ==
    \/ IsNum(v) \/ IsBool(v)
    \/ (IsStr(v) /\ DOMAIN v = {"str"} /\ (v.str = "" \/ IsNumeral(v.str)))
ToNumber(v) ==
    CASE IsNum(v) -> v.num
      [] IsBool(v) -> IF v.bool THEN 1 ELSE 0
      [] OTHER -> IF v.str = "" THEN 0 ELSE NumeralOf(v.str)

\* String(n) for a number; the numbers held in the lists of the model are
\* within 0..9
NumberString(n) ==
    IF n = 0 THEN Str("0")
    ELSE IF n \in 1..Len(NumeralStrs) THEN Str(NumeralStrs[n])
    ELSE Str("<numeral>")

RECURSIVE ArrayToString(_)
\* What an element contributes to Array.prototype.join: nothing for null and
\* undefined, else its string
JoinElement(v) ==
    CASE IsUndefined(v) \/ IsNull(v) -> Str("")
      [] IsStr(v) -> v
      [] IsNum(v) -> NumberString(v.num)
      [] IsBool(v) -> Str(IF v.bool THEN "true" ELSE "false")
      [] IsList(v) -> ArrayToString(v.list)
      [] OTHER -> Str("[object Object]")

\* The primitive an array converts to under ==: its elements joined by
\* commas.  A join of two or more elements holds a comma, which no string of
\* the model does, and it is no numeral.
ArrayToString(l) ==
    IF l = <<>> THEN Str("")
    ELSE IF Len(l) = 1 THEN JoinElement(l[1])
    ELSE Str("<joined>")

\* a == b on two primitives that are neither null nor undefined
PrimitivesEqual(a, b) ==
    IF IsStr(a) /\ IsStr(b) THEN a = b
    ELSE HasNumber(a) /\ HasNumber(b) /\ ToNumber(a) = ToNumber(b)

\* a == b.  Two objects compare by reference: two distinct objects are never
\* ==, and an object compared with itself is also deep-equal.  An array
\* compared with a primitive is converted to its string first.  A plain
\* object or a Date converts to a string that no primitive of the model equals.
LooseEqual(a, b) ==
    CASE IsUndefined(a) \/ IsNull(a) -> IsUndefined(b) \/ IsNull(b)
      [] IsUndefined(b) \/ IsNull(b) -> FALSE
      [] IsPrimitive(a) /\ IsPrimitive(b) -> PrimitivesEqual(a, b)
      [] IsList(a) /\ IsPrimitive(b) -> PrimitivesEqual(ArrayToString(a.list), b)
      [] IsPrimitive(a) /\ IsList(b) -> PrimitivesEqual(a, ArrayToString(b.list))
      [] OTHER -> FALSE

RECURSIVE objectsAreEqual(_, _)
objectsAreEqual(obj1, obj2) ==
    IF LooseEqual(obj1, obj2) THEN TRUE
    ELSE IF ~Truthy(obj1) \/ ~Truthy(obj2) THEN FALSE
    ELSE IF obj1 = obj2 THEN TRUE                                 \* _.isEqual
    ELSE IF /\ IsPlainObject(obj1) /\ "objectId" \in DOMAIN obj1  \* same objectId
            /\ ~IsUndefined(obj1["objectId"])
            /\ IsPlainObject(obj2)
            /\ LooseEqual(obj1["objectId"], Get(obj2, "objectId")) THEN TRUE
    ELSE IF IsList(obj1)
         THEN \E i \in 1..Len(obj1.list) : objectsAreEqual(obj1.list[i], obj2)
    \* both dates: two fresh Date objects compared with ===, never identical
    ELSE FALSE

\* ------------------------------------------------------------------------
\* Store accessors
\* ------------------------------------------------------------------------
\* db and masks are total over the class names: getCollection and getMask
\* materialize an empty entry on the first access, and no code tells an
\* absent entry from an empty one, so the model holds the empty entry from
\* the start.
getCollection(d, collection) == d[collection]

getMask(m, collection) == m[collection]

\* _.uniqueId(): the incremented counter as a string
uniqueId(counter) == ToString(counter + 1)

\* ------------------------------------------------------------------------
\* Update operators
\* ------------------------------------------------------------------------
\* for (key in object): keys come in insertion order; the payloads of the
\* model insert their keys in this order.
FieldOrder ==
    <<"cool", "createdAt", "error", "items", "name", "objectId", "price", "tags", "updatedAt">>
RECURSIVE KeysFrom(_, _)
KeysFrom(obj, i) ==
    IF i > Len(FieldOrder) THEN <<>>
    ELSE (IF FieldOrder[i] \in DOMAIN obj THEN <<FieldOrder[i]>> ELSE <<>>)
         \o KeysFrom(obj, i + 1)
KeysOf(obj) == KeysFrom(obj, 1)

extractOps(data) ==
    LET opKeys == {k \in DOMAIN data : isOp(data[k])}
    IN [ops |-> [k \in opKeys |-> data[k]], data |-> Omit(data, opKeys)]

\* ensureArray: a falsy value at key is replaced by a new array; a value that
\* is then not an array throws.
ensureArray(object, key) ==
    LET o1 == IF ~Truthy(Get(object, key)) THEN Assign(object, key :> List(<<>>)) ELSE object
    IN [obj |-> o1, threw |-> ~IsList(o1[key])]

RECURSIVE RemoveEqual(_, _)
\* RemoveEqual that stops at the first element it removes
RemoveEqual_FirstOnly(array, object) ==
    IF array = <<>> THEN <<>>
    ELSE IF objectsAreEqual(Head(array), object) THEN Tail(array)
    ELSE <<Head(array)>> \o RemoveEqual(Tail(array), object)

\* _.remove(array, item => objectsAreEqual(item, object))
RemoveEqual(array, object) ==
    IF array = <<>> THEN <<>>
    ELSE (IF objectsAreEqual(Head(array), object) THEN <<>> ELSE <<Head(array)>>)
         \o RemoveEqual(Tail(array), object)

RECURSIVE RemoveAll(_, _)
RemoveAll(array, objects) ==
    IF objects = <<>> THEN array
    ELSE RemoveAll(RemoveEqual(array, Head(objects)), Tail(objects))

RECURSIVE PushUnique(_, _)
\* array.indexOf(object) === -1: strict equality, so only a primitive can be found
PushUnique(array, objects) ==
    IF objects = <<>> THEN array
    ELSE LET o == Head(objects)
             found == IsPrimitive(o) /\ \E i \in 1..Len(array) : array[i] = o
         IN PushUnique(IF found THEN array ELSE Append(array, o), Tail(objects))

MASKED_UPDATE_OPS == {"AddRelation", "RemoveRelation"}
UPDATE_OPERATOR_NAMES ==
    {"Increment", "Add", "AddUnique", "Remove", "Delete", "AddRelation", "RemoveRelation"}

\* PlusAssign that stores the amount in place of the sum
PlusAssign_Overwrites(cur, amount) == amount

\* this[key] += amount: a number, boolean or null adds as a number; any
\* other value is concatenated with the amount into a string
PlusAssign(cur, amount) ==
    IF IsNum(cur) \/ IsBool(cur) THEN Num(ToNumber(cur) + amount.num)
    ELSE IF IsNull(cur) THEN amount
    ELSE Str("<concatenation>")

\* UPDATE_OPERATORS[operator].bind(object)(key, value): the object afterwards
\* and whether the operator threw
UPDATE_OPERATORS(operator, object, key, value) ==
    LET ea == ensureArray(object, key)
        arr == ea.obj[key].list
        objs == value["objects"].list
        put(l) == [obj |-> Assign(ea.obj, key :> List(l)), threw |-> FALSE]
    IN CASE operator = "Increment" ->
              LET cur == IF IsUndefined(Get(object, key)) THEN Num(0) ELSE object[key]
              IN [obj |-> Assign(object, key :> PlusAssign(cur, value["amount"])),
                  threw |-> FALSE]
         [] operator = "Delete" -> [obj |-> Omit(object, {key}), threw |-> FALSE]
         [] operator \in {"Add", "AddRelation"} ->
              IF ea.threw THEN ea ELSE put(arr \o objs)
         [] operator = "AddUnique" ->
              IF ea.threw THEN ea ELSE put(PushUnique(arr, objs))
         [] operator \in {"Remove", "RemoveRelation"} ->
              IF ea.threw THEN ea ELSE put(RemoveAll(arr, objs))

\* getMask(className).add(key)
MaskAdd(m, className, key) ==
    [m EXCEPT ![className] = getMask(m, className) \cup {key}]

RECURSIVE applyOpsFrom(_, _, _, _, _)
\* applyOps: the keys of ops in order; an unknown operator throws and ends
\* the loop, with the earlier operators applied and their masks recorded
applyOpsFrom(keys, data, ops, className, m) ==
    IF keys = <<>> THEN [data |-> data, masks |-> m, threw |-> FALSE]
    ELSE LET key == Head(keys)
             value == ops[key]
             operator == value["__op"].str
         IN IF operator \notin UPDATE_OPERATOR_NAMES
            THEN [data |-> data, masks |-> m, threw |-> TRUE]
            ELSE LET r == UPDATE_OPERATORS(operator, data, key, value)
                 IN IF r.threw THEN [data |-> r.obj, masks |-> m, threw |-> TRUE]
                    ELSE applyOpsFrom(Tail(keys), r.obj, ops, className,
                             IF operator \in MASKED_UPDATE_OPS
                             THEN MaskAdd(m, className, key) ELSE m)

applyOps(data, ops, className, m) == applyOpsFrom(KeysOf(ops), data, ops, className, m)

\* ------------------------------------------------------------------------
\* Hooks
\* ------------------------------------------------------------------------
\* The hook functions of test/test.js: beforeSavePromise rejects with "whoah"
\* when the object's error attribute is truthy, else sets cool and resolves
\* with the object; beforeDeletePromise rejects alike, else resolves with
\* no value.
HookFns == {"beforeSavePromise", "beforeDeletePromise"}
\* The classes the model registers hooks on
HookClasses == {"Brand"}
NoHook == "none"

getHook(hs, className, hookType) ==
    IF className \in DOMAIN hs /\ hookType \in DOMAIN hs[className]
    THEN hs[className][hookType] ELSE NoHook

\* decode() of the SDK on an attribute value: a JavaScript Date object has no
\* enumerable keys and decodes to an empty object; the values of the model
\* otherwise survive decode followed by encode.
decode(v) == IF IsDateObj(v) THEN EmptyObj ELSE v

\* Parse.Object.fromJSON: className and objectId become properties of the
\* instance, the other keys its attributes
fromJSON(modelData) ==
    LET attrKeys == DOMAIN modelData \ {"className", "__type", "objectId"}
    IN [className |-> modelData["className"],
        id |-> Get(modelData, "objectId"),
        attributes |-> [k \in attrKeys |-> decode(modelData[k])]]

\* Parse.Object.prototype.toJSON: the attributes, and objectId when the
\* instance has an id
toJSON(model) ==
    IF IsUndefined(model.id) THEN model.attributes
    ELSE Assign(model.attributes, "objectId" :> model.id)

\* The enumerable own properties of a Parse.Object instance, which is what
\* _.omit copies from it: className and id (the SDK's instance bookkeeping
\* holds no attribute). The attributes are not properties of the instance.
InstanceProps(model) ==
    IF IsUndefined(model.id) THEN "className" :> model.className
    ELSE ("className" :> model.className) @@ ("id" :> model.id)

HookCall(hook, model) ==
    IF Truthy(Get(model.attributes, "error"))
    THEN [rejected |-> TRUE, error |-> Str("whoah"), override |-> FALSE, model |-> model]
    ELSE IF hook = "beforeSavePromise"
    THEN [rejected |-> FALSE, error |-> Undefined, override |-> TRUE,
          model |-> [model EXCEPT !.attributes = Assign(@, "cool" :> Bool(TRUE))]]
    ELSE [rejected |-> FALSE, error |-> Undefined, override |-> FALSE, model |-> model]

\* HookSettle with the rejection swallowed: the operation goes on with the model
HookSettle_SwallowsRejection(hookType, model, r) ==
    [rejected |-> FALSE, error |-> Undefined,
     value |-> Omit(IF hookType = "beforeSave" /\ r.override
                    THEN toJSON(r.model) ELSE InstanceProps(model), {"ACL"})]

\* HookSettle with the override value dropped: the operation goes on with
\* the data the hook was given
HookSettle_DropsOverride(hookType, model, r) ==
    IF r.rejected THEN [rejected |-> TRUE, error |-> r.error, value |-> Undefined]
    ELSE [rejected |-> FALSE, error |-> Undefined, value |-> Omit(toJSON(model), {"ACL"})]

\* What the promise of runHook settles with
HookSettle(hookType, model, r) ==
    IF r.rejected THEN [rejected |-> TRUE, error |-> r.error, value |-> Undefined]
    ELSE [rejected |-> FALSE, error |-> Undefined,
          value |-> Omit(IF hookType = "beforeSave" /\ r.override
                         THEN toJSON(r.model) ELSE InstanceProps(model), {"ACL"})]

runHook(hs, className, hookType, data) ==
    LET hook == getHook(hs, className, hookType)
        modelData == Assign(IF IsUndefined(data) THEN EmptyObj ELSE data,
                            "className" :> Str(className))
        model == fromJSON(modelData)
    IN IF hook = NoHook
       THEN [rejected |-> FALSE, error |-> Undefined, value |-> data]
       ELSE HookSettle(hookType, model, HookCall(hook, model))

\* ------------------------------------------------------------------------
\* Request handlers, as functions of the request and the state they read.
\* Each yields the store afterwards and how the request ended:
\*   outcome "ok"        the promise resolved with respond(status, response)
\*           "rejected"  the promise was rejected with error
\*           "threw"     an exception was raised
\* ------------------------------------------------------------------------
DEFAULT_LIMIT == 100
\* declared next to DEFAULT_LIMIT and read by no handler
HARD_LIMIT == 1000

respond(status, response) == [status |-> status, response |-> response]

Ended(d, m, counter, outcome, r, error) ==
    [db |-> d, masks |-> m, idCounter |-> counter, outcome |-> outcome,
     status |-> r.status, response |-> r.response, error |-> error]

NoResponse == respond(0, Undefined)

\* NotFound answering with the status of a bad request
NotFound_Status400(message) ==
    respond(400, ("code" :> Num(101)) @@ ("error" :> Str(message)))

NotFound(message) ==
    respond(404, ("code" :> Num(101)) @@ ("error" :> Str(message)))

\* collection[id] = object
StoreRecord(d, className, id, object) ==
    [d EXCEPT ![className] = Assign(@, id :> object)]

\* delete collection[id]
EraseRecord(d, className, id) ==
    [d EXCEPT ![className] = Omit(@, {id})]

\* NewObject with the payload's fields left out of the stored object
NewObject_DropsPayload(result, newId, now) ==
    [objectId |-> Str(newId), createdAt |-> DateObj(now), updatedAt |-> DateObj(now)]

\* Object.assign(result, { objectId: newId, createdAt: now, updatedAt: now })
NewObject(result, newId, now) ==
    Assign(result, [objectId |-> Str(newId), createdAt |-> DateObj(now), updatedAt |-> DateObj(now)])

\* UpdatedObject built from the payload alone, without the stored fields
UpdatedObject_DropsStoredFields(currentObject, data, now) ==
    Assign(data, [updatedAt |-> DateObj(now)])

\* Object.assign(_.cloneDeep(currentObject), data, { updatedAt: now })
UpdatedObject(currentObject, data, now) ==
    Assign(Assign(currentObject, data), [updatedAt |-> DateObj(now)])

\* The object handlePutRequest stores once the hook has resolved with result
PutStored(updatedObject, result) == updatedObject

handlePostRequest(request, d, m, hs, counter, now) ==
    LET className == request.className
        h == runHook(hs, className, "beforeSave", request.data)
        newId == uniqueId(counter)
        ex == extractOps(h.value)
        newObject == NewObject(ex.data, newId, now)
        ap == applyOps(newObject, ex.ops, className, m)
        m1 == ap.masks
        toOmit == {"updatedAt"} \cup getMask(m1, className)
        d2 == StoreRecord(d, className, newId, ap.data)
    IN IF h.rejected THEN Ended(d, m, counter, "rejected", NoResponse, h.error)
       ELSE IF ap.threw THEN Ended(d, ap.masks, counter + 1, "threw", NoResponse, Undefined)
       \* result.createdAt.toJSON() on a draft whose createdAt an operator deleted
       ELSE IF "createdAt" \notin DOMAIN ap.data
       THEN Ended(d2, m1, counter + 1, "threw", NoResponse, Undefined)
       ELSE Ended(d2, m1, counter + 1, "ok",
                  respond(201, Assign(Omit(ap.data, toOmit),
                                      [createdAt |-> DateToJSON(ap.data["createdAt"])])),
                  Undefined)

\* PutDraft with the operators left in the draft for the hook to see
PutDraft_OpsNotApplied(request, d, m, now) ==
    LET currentObject == getCollection(d, request.className)[request.objectId]
    IN [data |-> UpdatedObject(currentObject, request.data, now), masks |-> m,
        threw |-> FALSE]

\* The draft of handlePutRequest once the operators are applied, for a
\* request whose record is stored
PutDraft(request, d, m, now) ==
    LET currentObject == getCollection(d, request.className)[request.objectId]
        ex == extractOps(request.data)
    IN applyOps(UpdatedObject(currentObject, ex.data, now), ex.ops, request.className, m)

\* handlePutRequest storing the draft although an operator raised on it
handlePutRequest_StoresFailedDraft(request, d, m, hs, counter, now) ==
    LET className == request.className
        objId == request.objectId
        currentObject == Get(getCollection(d, className), objId)
        ap == PutDraft(request, d, m, now)
        m1 == ap.masks
        toOmit == {"createdAt", "objectId"} \cup getMask(m1, className)
        h == runHook(hs, className, "beforeSave", ap.data)
        stored == StoreRecord(d, className, objId, PutStored(ap.data, h.value))
    IN IF IsUndefined(currentObject)
       THEN Ended(d, m, counter, "ok", NotFound("object not found for put"), Undefined)
       ELSE IF ap.threw THEN Ended(stored, ap.masks, counter, "threw", NoResponse, Undefined)
       ELSE IF h.rejected THEN Ended(d, m1, counter, "rejected", NoResponse, h.error)
       ELSE Ended(stored, m1, counter, "ok",
                  respond(200, Assign(Omit(h.value, toOmit), [updatedAt |-> DateObj(now)])),
                  Undefined)

handlePutRequest(request, d, m, hs, counter, now) ==
    LET className == request.className
        objId == request.objectId
        currentObject == Get(getCollection(d, className), objId)
        ap == PutDraft(request, d, m, now)
        m1 == ap.masks
        toOmit == {"createdAt", "objectId"} \cup getMask(m1, className)
        h == runHook(hs, className, "beforeSave", ap.data)
    IN IF IsUndefined(currentObject)
       THEN Ended(d, m, counter, "ok", NotFound("object not found for put"), Undefined)
       ELSE IF ap.threw THEN Ended(d, ap.masks, counter, "threw", NoResponse, Undefined)
       ELSE IF h.rejected THEN Ended(d, m1, counter, "rejected", NoResponse, h.error)
       ELSE Ended(StoreRecord(d, className, objId, PutStored(ap.data, h.value)), m1, counter,
                  "ok",
                  respond(200, Assign(Omit(h.value, toOmit), [updatedAt |-> DateObj(now)])),
                  Undefined)

\* handleDeleteRequest erasing the record before the hook has settled
handleDeleteRequest_ErasesFirst(request, d, m, hs, counter, now) ==
    LET className == request.className
        objToDelete == Get(getCollection(d, className), request.objectId)
        h == runHook(hs, className, "beforeDelete", objToDelete)
        d1 == EraseRecord(d, className, request.objectId)
    IN IF h.rejected THEN Ended(d1, m, counter, "rejected", NoResponse, h.error)
       ELSE Ended(d1, m, counter, "ok", respond(200, EmptyObj), Undefined)

handleDeleteRequest(request, d, m, hs, counter, now) ==
    LET className == request.className
        objToDelete == Get(getCollection(d, className), request.objectId)
        h == runHook(hs, className, "beforeDelete", objToDelete)
    IN IF h.rejected THEN Ended(d, m, counter, "rejected", NoResponse, h.error)
       ELSE Ended(EraseRecord(d, className, request.objectId), m, counter, "ok",
                  respond(200, EmptyObj), Undefined)

\* ------------------------------------------------------------------------
\* Queries
\* ------------------------------------------------------------------------
\* deserializeQueryParam: a wire date {__type: "Date", iso} becomes a Date
\* object, every other value passes through
deserializeQueryParam(param) ==
    IF isDate(param) THEN DateObj(param["iso"].at) ELSE param

\* Ordering comparisons (<, <=, >, >=) convert both sides to numbers, a Date
\* object to its instant and null to 0; a side with no number (undefined, an
\* object) makes every comparison false
HasOrdinal(v) == HasNumber(v) \/ IsDateObj(v) \/ IsNull(v)
Comparable(a, b) == HasOrdinal(a) /\ HasOrdinal(b)
Ordinal(v) == IF IsDateObj(v) THEN v.date ELSE IF IsNull(v) THEN 0 ELSE ToNumber(v)

\* value[index] for an array index
ElementAt(value, i) ==
    IF IsList(value) /\ i <= Len(value.list) THEN value.list[i] ELSE Undefined

QUERY_OPERATOR_NAMES ==
    {"$exists", "$in", "$nin", "$eq", "$ne", "$lt", "$lte", "$gt", "$gte",
     "$regex", "$select", "$inQuery", "$all", "$relatedTo"}

\* QUERY_OPERATORS with $lt and $gt also matching an equal value
QUERY_OPERATORS_NeverStrict(name, this, value) ==
    CASE name = "$exists" -> Bool(Truthy(this)) = value
      [] name = "$in" -> \E i \in 1..Len(value.list) : objectsAreEqual(this, value.list[i])
      [] name = "$nin" -> \A i \in 1..Len(value.list) : ~objectsAreEqual(this, value.list[i])
      [] name = "$eq" -> objectsAreEqual(this, value)
      [] name = "$ne" -> ~objectsAreEqual(this, value)
      [] name \in {"$lt", "$lte"} -> Comparable(this, value) /\ Ordinal(this) <= Ordinal(value)
      [] name \in {"$gt", "$gte"} -> Comparable(this, value) /\ Ordinal(this) >= Ordinal(value)
      [] name = "$all" ->
            \A i \in 1..Len(value.list) :
                IsList(this) /\ \E j \in 1..Len(this.list) :
                    objectsAreEqual(value.list[i], this.list[j])

\* QUERY_OPERATORS[name].apply(this, [value]) for the operators bound to a
\* field value
QUERY_OPERATORS(name, this, value) ==
    CASE name = "$exists" -> Bool(Truthy(this)) = value
      [] name = "$in" -> \E i \in 1..Len(value.list) : objectsAreEqual(this, value.list[i])
      [] name = "$nin" -> \A i \in 1..Len(value.list) : ~objectsAreEqual(this, value.list[i])
      [] name = "$eq" -> objectsAreEqual(this, value)
      [] name = "$ne" -> ~objectsAreEqual(this, value)
      [] name = "$lt" -> Comparable(this, value) /\ Ordinal(this) < Ordinal(value)
      [] name = "$lte" -> Comparable(this, value) /\ Ordinal(this) <= Ordinal(value)
      [] name = "$gt" -> Comparable(this, value) /\ Ordinal(this) > Ordinal(value)
      [] name = "$gte" -> Comparable(this, value) /\ Ordinal(this) >= Ordinal(value)
      [] name = "$all" ->
            \A i \in 1..Len(value.list) :
                IsList(this) /\ \E j \in 1..Len(this.list) :
                    objectsAreEqual(value.list[i], this.list[j])

\* $relatedTo: value names the owner (a pointer) and the relation key
relatedOwnerStored(d, value) ==
    LET object == value["object"]
    IN /\ object["className"].str \in DOMAIN d
       /\ object["objectId"].str \in DOMAIN d[object["className"].str]

\* getCollection(className)[id][relatedKey]
relatedRelations(d, value) ==
    LET object == value["object"]
    IN Get(d[object["className"].str][object["objectId"].str], value["key"].str)

\* $relatedTo raises when the owner is not stored (a property read on
\* undefined) and, in indirect mode, when the field holds no array
relatedToThrows(d, ind, value) ==
    \/ ~relatedOwnerStored(d, value)
    \/ Truthy(ind) /\ ~IsList(relatedRelations(d, value))

\* The truthiness of what $relatedTo returns: in indirect mode nothing
relatedTo(d, ind, this, value) ==
    IF Truthy(ind) THEN FALSE ELSE objectsAreEqual(relatedRelations(d, value), this)

\* key.split('.'): the dotted keys of the where clauses of the model and
\* their segments; every other key of the model holds no dot
NestedKeys ==
    ("info.name" :> <<"info", "name">>) @@ ("info.more.name" :> <<"info", "more", "name">>)
split(key) == IF key \in DOMAIN NestedKeys THEN NestedKeys[key] ELSE <<key>>

\* object[key] for a key that is a field name: a number, a string, a boolean,
\* an array and a Date have no property of such a name
Prop(object, key) == IF IsPlainObject(object) THEN Get(object, key) ELSE Undefined

RECURSIVE Descend(_, _, _)
\* The loop over nestedKeys of evaluateObject from index i on: the object and
\* key it leaves, or found = FALSE when a segment before the last is falsy
Descend(object, nestedKeys, i) ==
    IF i >= Len(nestedKeys)
    THEN [found |-> TRUE, object |-> object, key |-> nestedKeys[Len(nestedKeys)]]
    ELSE IF ~Truthy(Prop(object, nestedKeys[i]))
    THEN [found |-> FALSE, object |-> object, key |-> nestedKeys[i]]
    ELSE Descend(Prop(object, nestedKeys[i]), nestedKeys, i + 1)

RECURSIVE recursivelyMatch(_, _, _, _)

\* $inQuery satisfied by any match of the sub-query, whatever its objectId
inQuery_AnyMatch(d, ind, this, query) ==
    recursivelyMatch(d, ind, query["className"].str, Get(query, "where")) # <<>>

\* $inQuery: _.find over the matches of the sub-query; what it returns is a
\* match, which is truthy, or undefined.  The sub-queries of the model carry
\* a where clause.
inQuery(d, ind, this, query) ==
    LET matches == recursivelyMatch(d, ind, query["className"].str, Get(query, "where"))
    IN \E i \in 1..Len(matches) :
          /\ Truthy(this)
          /\ IsPrimitive(Prop(this, "objectId"))
          /\ Get(matches[i], "objectId") = Prop(this, "objectId")

\* evaluateObject once the dotted key is resolved (lines 601-625); the cases
\* in which it raises are EvaluateAtThrows
EvaluateAt(d, ind, object, whereParams, key) ==
    LET keyValue == deserializeQueryParam(Prop(object, key))
    IN IF IsPrimitive(whereParams) /\ ~IsNull(whereParams)
       THEN QUERY_OPERATORS("$eq", Prop(object, key), whereParams)
       ELSE IF isPointer(whereParams) \/ isDate(whereParams)
       THEN QUERY_OPERATORS("$eq", Prop(object, key), whereParams)
       ELSE IF key = "$relatedTo" THEN relatedTo(d, ind, object, whereParams)
       ELSE IF key \in QUERY_OPERATOR_NAMES THEN QUERY_OPERATORS(key, object, whereParams)
       ELSE IF IsNull(whereParams) THEN TRUE  \* _.reduce over no keys
       ELSE IF IsList(whereParams)
       THEN \A i \in 1..Len(whereParams.list) :
               QUERY_OPERATORS("$eq", ElementAt(keyValue, i),
                               deserializeQueryParam(whereParams.list[i]))
       ELSE \A constraint \in DOMAIN whereParams :
               IF constraint = "$inQuery"
               THEN inQuery(d, ind, keyValue, deserializeQueryParam(whereParams[constraint]))
               ELSE IF constraint \in QUERY_OPERATOR_NAMES
               THEN QUERY_OPERATORS(constraint, keyValue,
                                    deserializeQueryParam(whereParams[constraint]))
               ELSE QUERY_OPERATORS("$eq", Get(keyValue, constraint),
                                    deserializeQueryParam(whereParams[constraint]))

\* evaluateObject raises once the dotted key is resolved: whereParams is a
\* mapping or an array whose first constraint is no query operator, so that
\* keyValue[constraint] is read, and keyValue is undefined or null.  The
\* mappings of the model hold operators only or literal sub-keys only.
EvaluateAtThrows(object, whereParams, key) ==
    LET keyValue == deserializeQueryParam(Prop(object, key))
    IN /\ ~IsPrimitive(whereParams)
       /\ ~(isPointer(whereParams) \/ isDate(whereParams))
       /\ key \notin QUERY_OPERATOR_NAMES
       /\ IsUndefined(keyValue) \/ IsNull(keyValue)
       /\ IF IsList(whereParams) THEN whereParams.list # <<>>
          ELSE /\ DOMAIN whereParams # {}
               /\ DOMAIN whereParams \cap QUERY_OPERATOR_NAMES = {}

evaluateObjectThrows(object, whereParams, key) ==
    LET at == Descend(object, split(key), 1)
    IN at.found /\ EvaluateAtThrows(at.object, whereParams, at.key)

\* evaluateObject taking a record whose path breaks off for a match
evaluateObject_AbsentMatches(d, ind, object, whereParams, key) ==
    LET at == Descend(object, split(key), 1)
    IN ~at.found \/ EvaluateAt(d, ind, at.object, whereParams, at.key)

evaluateObject(d, ind, object, whereParams, key) ==
    LET at == Descend(object, split(key), 1)
    IN at.found /\ EvaluateAt(d, ind, at.object, whereParams, at.key)

\* The where clauses of the model carry $relatedTo at the top level only
HasRelatedTo(where) == "$relatedTo" \in DOMAIN where /\ ~IsPrimitive(where["$relatedTo"])

RECURSIVE queryFilter(_, _, _, _)
\* queryFilter asking a record to match every sub-clause of $or
queryFilter_OrNeedsAll(d, ind, where, object) ==
    IF "$or" \in DOMAIN where /\ Truthy(where["$or"])
    THEN \A i \in 1..Len(where["$or"].list) : queryFilter(d, ind, where["$or"].list[i], object)
    ELSE \A key \in DOMAIN where : evaluateObject(d, ind, object, where[key], key)

\* queryFilter(where)(object)
queryFilter(d, ind, where, object) ==
    IF "$or" \in DOMAIN where /\ Truthy(where["$or"])
    THEN \E i \in 1..Len(where["$or"].list) : queryFilter(d, ind, where["$or"].list[i], object)
    ELSE \A key \in DOMAIN where : evaluateObject(d, ind, object, where[key], key)

\* queryFilter(where)(object) raises: _.reduce evaluates every key of where
queryFilterThrows(d, ind, where) ==
    HasRelatedTo(where) /\ relatedToThrows(d, ind, where["$relatedTo"])

\* queryFilter(where)(object) raises on this object: evaluateObject raises
\* for one of the keys.  The sub-clauses of $or in the model constrain
\* fields with scalars only.
queryFilterThrowsOn(where, object) ==
    /\ ~("$or" \in DOMAIN where /\ Truthy(where["$or"]))
    /\ \E key \in DOMAIN where : evaluateObjectThrows(object, where[key], key)

RECURSIVE UpperKey(_, _)
\* A number that no id of the collection exceeds; ids are the numerals that
\* _.uniqueId() hands out
UpperKey(collection, p) ==
    IF DOMAIN collection \subseteq {ToString(i) : i \in 1..p} THEN p
    ELSE UpperKey(collection, 2 * p)

\* _.values(collection): ids are integer-like keys, enumerated in ascending
\* numeric order; hi is a number that no id exceeds
ValuesFrom(collection, hi) ==
    CHOOSE values \in {[i \in 1..Len(ids) |-> collection[ids[i]]] :
                         ids \in {SelectSeq([i \in 1..hi |-> ToString(i)],
                                            LAMBDA id : id \in DOMAIN collection)}} : TRUE

\* _.filter(objects, queryFilter(where))
Filter(d, ind, objects, where) ==
    SelectSeq(objects, LAMBDA object : queryFilter(d, ind, where, object))

\* The matches are deep copies: a value of the model is its own copy
recursivelyMatch(d, ind, className, where) ==
    CHOOSE matches \in {Filter(d, ind, ValuesFrom(collection, hi), where) :
                            collection \in {getCollection(d, className)},
                            hi \in {UpperKey(getCollection(d, className), 1)}} : TRUE

RECURSIVE relatedConcat(_, _, _, _)
\* relations.reduce(...): the matches of { objectId: relation.objectId } in
\* the class of the first pointer, concatenated in the order of the relation
relatedConcat(d, ind, relations, i) ==
    IF i > Len(relations) THEN <<>>
    ELSE recursivelyMatch(d, ind, relations[1]["className"].str,
                          "objectId" :> Get(relations[i], "objectId"))
         \o relatedConcat(d, ind, relations, i + 1)

\* What the indirect $relatedTo leaves in outOfBandResults
relatedOutOfBand(d, ind, value) == relatedConcat(d, ind, relatedRelations(d, value).list, 1)

\* recursivelyMatch raises: where is undefined or null (where["$or"] is read
\* before any record is looked at), or the filter raises on a record
recursivelyMatchThrows(d, ind, className, where) ==
    \/ IsUndefined(where) \/ IsNull(where)
    \/ getCollection(d, className) # EmptyObj /\ queryFilterThrows(d, ind, where)
    \/ \E id \in DOMAIN getCollection(d, className) :
          queryFilterThrowsOn(where, getCollection(d, className)[id])

\* outOfBandResults once recursivelyMatch has returned: the indirect
\* $relatedTo writes it each time the filter looks at a record
matchOutOfBand(d, ind, oob, className, where) ==
    IF Truthy(ind) /\ HasRelatedTo(where) /\ getCollection(d, className) # EmptyObj
    THEN List(relatedOutOfBand(d, ind, where["$relatedTo"]))
    ELSE oob

\* fetchObjectByPointer handing back the pointer when its record is missing
fetchObjectByPointer_KeepsPointer(d, pointer) ==
    LET className == Get(pointer, "className")
        objectId == Get(pointer, "objectId")
    IN IF /\ IsPlainObject(pointer) /\ IsStr(className) /\ IsStr(objectId)
          /\ className.str \in DOMAIN d /\ objectId.str \in DOMAIN d[className.str]
       THEN Assign(("__type" :> Str("Object")) @@ ("className" :> className),
                   d[className.str][objectId.str])
       ELSE pointer

fetchObjectByPointer(d, pointer) ==
    LET className == Get(pointer, "className")
        objectId == Get(pointer, "objectId")
    IN IF /\ IsPlainObject(pointer) /\ IsStr(className) /\ IsStr(objectId)
          /\ className.str \in DOMAIN d /\ objectId.str \in DOMAIN d[className.str]
       THEN Assign(("__type" :> Str("Object")) @@ ("className" :> className),
                   d[className.str][objectId.str])
       ELSE Undefined

RECURSIVE includePaths(_, _, _)
\* includePaths(object, pathsRemaining); pathsRemaining is the path split at
\* its dots
includePaths(d, object, pathsRemaining) ==
    IF pathsRemaining = <<>> \/ ~IsPlainObject(object) THEN object
    ELSE LET path == Head(pathsRemaining)
             rest == Tail(pathsRemaining)
             target == Get(object, path)
         IN IF ~Truthy(target) THEN object
            ELSE IF IsList(target)
            THEN Assign(object, path :> List([i \in 1..Len(target.list) |->
                     includePaths(d, fetchObjectByPointer(d, target.list[i]), rest)]))
            ELSE Assign(object, path :>
                     includePaths(d, IF Get(target, "__type") = Str("Pointer")
                                     THEN fetchObjectByPointer(d, target) ELSE target, rest))

RECURSIVE includePathsThrows(_, _, _)
\* includePaths raises: an element of a list is undefined or null, as a
\* pointer that an earlier path could not fetch, and fetchObjectByPointer
\* reads its className
includePathsThrows(d, object, pathsRemaining) ==
    IF pathsRemaining = <<>> \/ ~IsPlainObject(object) THEN FALSE
    ELSE LET rest == Tail(pathsRemaining)
             target == Get(object, Head(pathsRemaining))
         IN IF ~Truthy(target) THEN FALSE
            ELSE IF IsList(target)
            THEN \E i \in 1..Len(target.list) :
                    \/ IsUndefined(target.list[i]) \/ IsNull(target.list[i])
                    \/ includePathsThrows(d, fetchObjectByPointer(d, target.list[i]), rest)
            ELSE includePathsThrows(d, IF Get(target, "__type") = Str("Pointer")
                                       THEN fetchObjectByPointer(d, target) ELSE target, rest)

RECURSIVE includeEach(_, _, _)
includeEach(d, match, includeClauses) ==
    IF includeClauses = <<>> THEN match
    ELSE includeEach(d, includePaths(d, match, Head(includeClauses)), Tail(includeClauses))

RECURSIVE includeEachThrows(_, _, _)
includeEachThrows(d, match, includeClauses) ==
    IF includeClauses = <<>> THEN FALSE
    ELSE \/ includePathsThrows(d, match, Head(includeClauses))
         \/ includeEachThrows(d, includePaths(d, match, Head(includeClauses)),
                              Tail(includeClauses))

\* queryMatchesAfterIncluding raises on one of the matches
includingThrows(d, matches, includeClause) ==
    /\ Truthy(includeClause)
    /\ \E i \in 1..Len(matches) : includeEachThrows(d, matches[i], includeClause.list)

\* queryMatchesAfterIncluding(matches, includeClause); the include clause is
\* held as split: includeClause.list is the sequence of its comma-separated
\* paths, each the sequence of its dot-separated names
queryMatchesAfterIncluding(d, matches, includeClause) ==
    IF ~Truthy(includeClause) THEN matches
    ELSE [i \in 1..Len(matches) |-> includeEach(d, matches[i], includeClause.list)]

\* match.createdAt / match.updatedAt replaced by their toJSON()
SerializeDates(match) ==
    [k \in DOMAIN match |->
        IF k \in {"createdAt", "updatedAt"} /\ IsDateObj(match[k])
        THEN DateToJSON(match[k]) ELSE match[k]]

\* match.createdAt.toJSON() raises on a truthy value that is no Date
SerializeThrows(match) ==
    \E k \in {"createdAt", "updatedAt"} : Truthy(Get(match, k)) /\ ~IsDateObj(match[k])

\* slice that takes the window's length from the first match on
Slice_IgnoresSkip(matches, startIndex, endIndex) ==
    SubSeq(matches, 1, IF endIndex - startIndex < Len(matches)
                       THEN endIndex - startIndex ELSE Len(matches))

\* matches.slice(startIndex, endIndex)
Slice(matches, startIndex, endIndex) ==
    SubSeq(matches, startIndex + 1, IF endIndex < Len(matches) THEN endIndex ELSE Len(matches))

\* AfterRead with the edits made on the stored originals
AfterRead_EditsOriginals(d, className, shown) ==
    [d EXCEPT ![className] =
        [id \in DOMAIN @ |->
            IF \E i \in 1..Len(shown) : Get(shown[i], "objectId") = Str(id)
            THEN shown[CHOOSE i \in 1..Len(shown) : Get(shown[i], "objectId") = Str(id)]
            ELSE @[id]]]

\* The store once handleGetRequest has expanded, masked and serialised the
\* matches: these are the deep copies of recursivelyMatch and
\* fetchObjectByPointer and the shallow copies of _.omit, so that no edit
\* reaches a stored record
AfterRead(d, className, shown) == d

\* How a GET ended: the fields of Ended and the two module-level slots
EndedGet(e, ind, oob) ==
    [db |-> e.db, masks |-> e.masks, idCounter |-> e.idCounter, outcome |-> e.outcome,
     status |-> e.status, response |-> e.response, error |-> e.error,
     indirect |-> ind, outOfBandResults |-> oob]

\* handleGetRequest from the masking of the matches on (lines 370-387)
GetShown(request, d, m, counter, indirect1, oob1, included) ==
    LET className == request.className
        data == request.data
        \* includePaths works on the matches in place, and in indirect mode
        \* these are the objects outOfBandResults holds
        oob2 == IF Truthy(indirect1) THEN List(included) ELSE oob1
        toOmit == getMask(m, className)
        shown == [i \in 1..Len(included) |-> SerializeDates(Omit(included[i], toOmit))]
        limit == IF Truthy(Get(data, "limit")) THEN data["limit"].num ELSE DEFAULT_LIMIT
        startIndex == IF Truthy(Get(data, "skip")) THEN data["skip"].num ELSE 0
    IN IF \E i \in 1..Len(included) : SerializeThrows(Omit(included[i], toOmit))
       THEN EndedGet(Ended(d, m, counter, "threw", NoResponse, Undefined), indirect1, oob2)
       ELSE EndedGet(Ended(AfterRead(d, className, shown), m, counter, "ok",
                           respond(200, "results" :>
                               List(Slice(shown, startIndex, startIndex + limit))),
                           Undefined),
                     indirect1, oob2)

\* handleGetRequest once the matches are known (lines 364-368)
GetMatched(request, d, m, counter, indirect1, oob1, matches) ==
    IF Truthy(Get(request.data, "count"))
    THEN EndedGet(Ended(d, m, counter, "ok",
                        respond(200, "count" :> Num(Len(matches))), Undefined),
                  indirect1, oob1)
    ELSE IF includingThrows(d, matches, Get(request.data, "include"))
    THEN EndedGet(Ended(d, m, counter, "threw", NoResponse, Undefined), indirect1, oob1)
    ELSE GetShown(request, d, m, counter, indirect1, oob1,
                  queryMatchesAfterIncluding(d, matches, Get(request.data, "include")))

\* handleGetRequest once recursivelyMatch has returned (lines 360-362)
GetRedirected(request, d, m, counter, indirect1, oob1) ==
    \* matches = outOfBandResults, still null: matches.length raises
    IF Truthy(indirect1) /\ IsNull(oob1)
    THEN EndedGet(Ended(d, m, counter, "threw", NoResponse, Undefined), indirect1, oob1)
    ELSE GetMatched(request, d, m, counter, indirect1, oob1,
                    IF Truthy(indirect1) THEN oob1.list
                    ELSE recursivelyMatch(d, indirect1, request.className,
                                          Get(request.data, "where")))

handleGetRequest(request, d, m, hs, counter, now, ind, oob) ==
    LET className == request.className
        currentObject == Get(getCollection(d, className), request.objectId)
        where == Get(request.data, "where")
        indirect1 == Get(request.data, "redirectClassNameForKey")
    IN IF request.objectId # ""
       THEN IF IsUndefined(currentObject)
            THEN EndedGet(Ended(d, m, counter, "ok", NotFound("object not found for update"),
                                Undefined), ind, oob)
            ELSE EndedGet(Ended(d, m, counter, "ok", respond(200, currentObject), Undefined),
                          ind, oob)
       ELSE IF recursivelyMatchThrows(d, indirect1, className, where)
       THEN EndedGet(Ended(d, m, counter, "threw", NoResponse, Undefined), indirect1, oob)
       ELSE GetRedirected(request, d, m, counter, indirect1,
                          matchOutOfBand(d, indirect1, oob, className, where))

\* ------------------------------------------------------------------------
\* State
\* ------------------------------------------------------------------------
VARIABLES
    db,         \* class name -> (objectId -> record); a class is in the domain once materialized
    hooks,      \* class name -> (hook type -> hook function)
    masks,      \* class name -> set of masked field names
    idCounter,  \* lodash's counter behind _.uniqueId()
    clock,      \* the wall clock read by new Date()
    indirect,   \* redirectClassNameForKey of the last query
    outOfBandResults,  \* what the indirect $relatedTo last left behind
    pending,    \* the operations suspended at a hook that has not settled yet
    resp        \* the last request and how it ended

vars == <<db, hooks, masks, idCounter, clock, indirect, outOfBandResults, pending, resp>>

NoResp == [method |-> "none"]

\* The requests of the model
Ids == {NumeralStrs[i] : i \in 1..MaxId}
AddRelationOp(objects) == ("__op" :> Str("AddRelation")) @@ ("objects" :> List(objects))
RemoveRelationOp(objects) == ("__op" :> Str("RemoveRelation")) @@ ("objects" :> List(objects))
Target == makePointer("Item", "1")
CreatePayloads ==
    {EmptyObj, [name |-> Str("a")], [error |-> Bool(TRUE)],
     [name |-> Str("a"), items |-> AddRelationOp(<<Target>>)]}
UpdatePayloads ==
    {[name |-> Str("b")], [error |-> Bool(TRUE)],
     [items |-> AddRelationOp(<<Target>>)], [items |-> RemoveRelationOp(<<Target>>)]}
\* a query with no where clause, with an empty one, with an equality
Queries == {EmptyObj, [where |-> EmptyObj], [where |-> [name |-> Str("a")]]}

EmptyDb == [c \in Classes |-> EmptyObj]
EmptyMasks == [c \in Classes |-> {}]

\* Every stored list is within the bound
ListsBounded(d) ==
    \A c \in DOMAIN d : \A id \in DOMAIN d[c] : \A k \in DOMAIN d[c][id] :
        IsList(d[c][id][k]) => Len(d[c][id][k].list) <= MaxLen

Init ==
    /\ db = EmptyDb
    /\ hooks = EmptyObj
    /\ masks = EmptyMasks
    /\ idCounter = 0
    /\ clock = 0
    /\ indirect = Null
    /\ outOfBandResults = Null
    /\ pending = {}
    /\ resp = NoResp

\* The store and the response after a handler ended with e, on a request
\* that consulted hook
Settled(method, request, hook, e) ==
    /\ db' = e.db
    /\ masks' = e.masks
    /\ idCounter' = e.idCounter
    /\ resp' = [method |-> method, className |-> request.className,
                objectId |-> request.objectId, data |-> request.data, hook |-> hook,
                outcome |-> e.outcome, status |-> e.status, response |-> e.response,
                error |-> e.error]
    /\ UNCHANGED <<hooks, clock, pending>>

\* The state after a POST, PUT or DELETE handler ended
Handled(method, request, hook, e) ==
    /\ Settled(method, request, hook, e)
    /\ UNCHANGED <<indirect, outOfBandResults>>

\* The state after handleGetRequest ended
HandledGet(request, e) ==
    /\ Settled("GET", request, NoHook, e)
    /\ indirect' = e.indirect
    /\ outOfBandResults' = e.outOfBandResults

PostRequests ==
    {[className |-> c, objectId |-> "", data |-> data] : c \in Classes, data \in CreatePayloads}
PutRequests ==
    UNION {{[className |-> c, objectId |-> id, data |-> data] : c \in Classes, id \in Ids} :
           data \in UpdatePayloads}
DeleteRequests == {[className |-> c, objectId |-> id, data |-> EmptyObj] : c \in Classes, id \in Ids}
FetchRequests == {[className |-> c, objectId |-> id, data |-> EmptyObj] : c \in Classes, id \in Ids}
FindRequests == {[className |-> c, objectId |-> "", data |-> q] : c \in Classes, q \in Queries}

Post ==
    \E request \in PostRequests :
        \E e \in {handlePostRequest(request, db, masks, hooks, idCounter, clock)} :
           /\ e.idCounter <= MaxId
           /\ ListsBounded(e.db)
           /\ Handled("POST", request, getHook(hooks, request.className, "beforeSave"), e)

Put ==
    \E request \in PutRequests :
        \E e \in {handlePutRequest(request, db, masks, hooks, idCounter, clock)} :
           /\ ListsBounded(e.db)
           /\ Handled("PUT", request, getHook(hooks, request.className, "beforeSave"), e)

Delete ==
    \E request \in DeleteRequests :
        \E e \in {handleDeleteRequest(request, db, masks, hooks, idCounter, clock)} :
           Handled("DELETE", request, getHook(hooks, request.className, "beforeDelete"), e)

Fetch ==
    \E request \in FetchRequests :
        \E e \in {handleGetRequest(request, db, masks, hooks, idCounter, clock,
                                  indirect, outOfBandResults)} :
           HandledGet(request, e)

Find ==
    \E request \in FindRequests :
        \E e \in {handleGetRequest(request, db, masks, hooks, idCounter, clock,
                                  indirect, outOfBandResults)} :
           HandledGet(request, e)

HookCount(hs) ==
    Cardinality({ct \in Classes \X HookTypes : getHook(hs, ct[1], ct[2]) # NoHook})

\* registerHook(className, hookType, hookFn)
registerHook(hs, className, hookType, hookFn) ==
    LET hs1 == IF className \in DOMAIN hs THEN hs ELSE Assign(hs, className :> EmptyObj)
    IN [hs1 EXCEPT ![className] = Assign(@, hookType :> hookFn)]

RegisterHook ==
    \E c \in HookClasses, t \in HookTypes, fn \in HookFns :
        /\ getHook(hooks, c, t) # NoHook \/ HookCount(hooks) < MaxHooks
        /\ hooks' = registerHook(hooks, c, t, fn)
        /\ resp' = [method |-> "registerHook"]
        /\ UNCHANGED <<db, masks, idCounter, clock, indirect, outOfBandResults, pending>>

\* cleanUp(): db = {}; hooks = {}
cleanUp(d, hs, m) == [db |-> EmptyDb, hooks |-> EmptyObj, masks |-> m]

CleanUp ==
    /\ db' = cleanUp(db, hooks, masks).db
    /\ hooks' = cleanUp(db, hooks, masks).hooks
    /\ masks' = cleanUp(db, hooks, masks).masks
    /\ resp' = [method |-> "cleanUp"]
    /\ UNCHANGED <<idCounter, clock, indirect, outOfBandResults, pending>>

Tick ==
    /\ clock < MaxTime
    /\ clock' = clock + 1
    /\ UNCHANGED <<db, hooks, masks, idCounter, indirect, outOfBandResults, pending, resp>>

Next == Post \/ Put \/ Delete \/ Fetch \/ Find \/ RegisterHook \/ CleanUp \/ Tick

Spec == Init /\ [][Next]_vars

\* ------------------------------------------------------------------------
\* Relations: a store of three records of one class (as users related to
\* users): an owner with a relation field, a record the relation can point
\* to and a record it never points to
\* ------------------------------------------------------------------------
RelClass == "Brand"
RelKey == "items"
RelOwner == "1"
RelTargets == {"2"}
RelOthers == {"3"}

PostRequest(className, data) == [className |-> className, objectId |-> "", data |-> data]
FindOf(className, q) == [className |-> className, objectId |-> "", data |-> q]

\* A Create that follows the outcome e of an earlier request
CreatedAfter(e, className, data) ==
    handlePostRequest(PostRequest(className, data), e.db, e.masks, EmptyObj, e.idCounter, 0)

\* The store after the three Creates, the owner first
RelCreated ==
    CHOOSE e3 \in {CreatedAfter(e2, RelClass, EmptyObj) :
                      e2 \in {CreatedAfter(e1, RelClass, EmptyObj) :
                                 e1 \in {handlePostRequest(
                                            PostRequest(RelClass, [name |-> Str("a")]),
                                            EmptyDb, EmptyMasks, EmptyObj, 0, 0)}}} : TRUE

InitRel ==
    /\ db = RelCreated.db
    /\ hooks = EmptyObj
    /\ masks = RelCreated.masks
    /\ idCounter = RelCreated.idCounter
    /\ clock = 0
    /\ indirect = Null
    /\ outOfBandResults = Null
    /\ pending = {}
    /\ resp = NoResp

\* relation.query(): addressed to the class of the targets when the client
\* knows it (direct), else to the owner's class with redirectClassNameForKey
RelatedToWhere == "$relatedTo" :> (("object" :> makePointer(RelClass, RelOwner))
                                   @@ ("key" :> Str(RelKey)))
DirectQuery == [where |-> RelatedToWhere]
IndirectQuery == [where |-> RelatedToWhere, redirectClassNameForKey |-> Str(RelKey)]
IncludeQuery == [where |-> EmptyObj, include |-> List(<<(<<"parent">>)>>)]
RelQueries ==
    {DirectQuery, IndirectQuery, IncludeQuery,
     [where |-> EmptyObj, count |-> Num(1)],
     [where |-> EmptyObj, limit |-> Num(1), skip |-> Num(1)]}

RelUpdatePayloads ==
    {RelKey :> AddRelationOp(<<makePointer(RelClass, t)>>) : t \in RelTargets}
    \cup {RelKey :> RemoveRelationOp(<<makePointer(RelClass, t)>>) : t \in RelTargets}
    \cup {[name |-> Str("b")], [parent |-> makePointer(RelClass, "2")]}

RelIds == {RelOwner} \cup RelTargets \cup RelOthers
RelPutRequests ==
    {[className |-> RelClass, objectId |-> RelOwner, data |-> data] : data \in RelUpdatePayloads}
RelDeleteRequests == {[className |-> RelClass, objectId |-> id, data |-> EmptyObj] : id \in RelIds}
RelFetchRequests == {[className |-> RelClass, objectId |-> id, data |-> EmptyObj] : id \in RelIds}
RelFindRequests == {[className |-> RelClass, objectId |-> "", data |-> q] : q \in RelQueries}

RelPut ==
    \E request \in RelPutRequests :
        \E e \in {handlePutRequest(request, db, masks, hooks, idCounter, clock)} :
           /\ ListsBounded(e.db)
           /\ Handled("PUT", request, NoHook, e)

RelDelete ==
    \E request \in RelDeleteRequests :
        \E e \in {handleDeleteRequest(request, db, masks, hooks, idCounter, clock)} :
           Handled("DELETE", request, NoHook, e)

RelFetch ==
    \E request \in RelFetchRequests :
        \E e \in {handleGetRequest(request, db, masks, hooks, idCounter, clock,
                                  indirect, outOfBandResults)} :
           HandledGet(request, e)

RelFind ==
    \E request \in RelFindRequests :
        \E e \in {handleGetRequest(request, db, masks, hooks, idCounter, clock,
                                  indirect, outOfBandResults)} :
           HandledGet(request, e)

NextRel == RelPut \/ RelDelete \/ RelFetch \/ RelFind

SpecRel == InitRel /\ [][NextRel]_vars

\* ------------------------------------------------------------------------
\* Operators and payloads: a store with one record whose field cool holds a
\* value of each type, and Updates and Creates with every kind of payload
\* ------------------------------------------------------------------------
OpsClass == "Brand"
OpsKey == "cool"
OpsId == "1"
OpsValues ==
    {Bool(FALSE), Bool(TRUE), Num(0), Num(5), Str(""), Str("a"),
     List(<<Num(1)>>), [x |-> Num(1)]}

InitOps ==
    /\ \E data \in {EmptyObj} \cup {OpsKey :> v : v \in OpsValues} :
          db = handlePostRequest(PostRequest(OpsClass, data),
                                 EmptyDb, EmptyMasks, EmptyObj, 0, 0).db
    /\ hooks = EmptyObj
    /\ masks = EmptyMasks
    /\ idCounter = 1
    /\ clock = 0
    /\ indirect = Null
    /\ outOfBandResults = Null
    /\ pending = {}
    /\ resp = NoResp

AddOp(objects) == ("__op" :> Str("Add")) @@ ("objects" :> List(objects))
AddUniqueOp(objects) == ("__op" :> Str("AddUnique")) @@ ("objects" :> List(objects))
RemoveOp(objects) == ("__op" :> Str("Remove")) @@ ("objects" :> List(objects))
DeleteOp == "__op" :> Str("Delete")
\* an operation whose operator name is none of UPDATE_OPERATORS
BogusOp == "__op" :> Str("Bogus")

ArrayOpPayloads ==
    {OpsKey :> op : op \in {AddOp(<<Num(1)>>), AddUniqueOp(<<Num(1)>>), RemoveOp(<<Num(1)>>)}}
\* the unknown operator comes last in the payload
BogusPayloads ==
    {(OpsKey :> AddOp(<<Num(1)>>)) @@ ("name" :> BogusOp),
     ("items" :> AddRelationOp(<<Target>>)) @@ ("name" :> BogusOp),
     "name" :> BogusOp}
OpsUpdatePayloads == ArrayOpPayloads \cup BogusPayloads

OpsPutRequests ==
    {[className |-> OpsClass, objectId |-> OpsId, data |-> data] : data \in OpsUpdatePayloads}

OpsPut ==
    \E request \in OpsPutRequests :
        \E e \in {handlePutRequest(request, db, masks, hooks, idCounter, clock)} :
           /\ ListsBounded(e.db)
           /\ Handled("PUT", request, NoHook, e)

OpsFetch ==
    LET request == [className |-> OpsClass, objectId |-> OpsId, data |-> EmptyObj]
    IN \E e \in {handleGetRequest(request, db, masks, hooks, idCounter, clock,
                                  indirect, outOfBandResults)} :
          HandledGet(request, e)

NextOps == OpsPut \/ OpsFetch \/ Tick

SpecOps == InitOps /\ [][NextOps]_vars

\* ------------------------------------------------------------------------
\* Identity and timestamps: Creates and Updates whose payloads name
\* objectId, createdAt and updatedAt
\* ------------------------------------------------------------------------
MaxIdsId == 2     \* ids handed out while these payloads are tried

InitIds ==
    /\ db = handlePostRequest(PostRequest(OpsClass, [name |-> Str("a")]),
                              EmptyDb, EmptyMasks, EmptyObj, 0, 0).db
    /\ hooks = EmptyObj
    /\ masks = EmptyMasks
    /\ idCounter = 1
    /\ clock = 0
    /\ indirect = Null
    /\ outOfBandResults = Null
    /\ pending = {}
    /\ resp = NoResp

IdsUpdatePayloads ==
    {[name |-> Str("b")], [objectId |-> Str("9")], [createdAt |-> Str("then")],
     [updatedAt |-> Str("then")], "objectId" :> DeleteOp, "updatedAt" :> DeleteOp}
IdsCreatePayloads == {EmptyObj, [objectId |-> Str("9")], "objectId" :> DeleteOp}

IdsIds == {NumeralStrs[i] : i \in 1..MaxIdsId}
IdsPostRequests == {PostRequest(OpsClass, data) : data \in IdsCreatePayloads}
IdsPutRequests ==
    {[className |-> OpsClass, objectId |-> id, data |-> data] :
        id \in IdsIds, data \in IdsUpdatePayloads}

IdsPost ==
    \E request \in IdsPostRequests :
        \E e \in {handlePostRequest(request, db, masks, hooks, idCounter, clock)} :
           /\ e.idCounter <= MaxIdsId
           /\ Handled("POST", request, NoHook, e)

IdsPut ==
    \E request \in IdsPutRequests :
        \E e \in {handlePutRequest(request, db, masks, hooks, idCounter, clock)} :
           Handled("PUT", request, NoHook, e)

IdsDelete ==
    \E id \in IdsIds :
        LET request == [className |-> OpsClass, objectId |-> id, data |-> EmptyObj]
        IN \E e \in {handleDeleteRequest(request, db, masks, hooks, idCounter, clock)} :
              Handled("DELETE", request, NoHook, e)

NextIds == IdsPost \/ IdsPut \/ IdsDelete \/ Tick

SpecIds == InitIds /\ [][NextIds]_vars

\* ------------------------------------------------------------------------
\* Deferred hooks: the promise a hook returns may settle after the call
\* that ran it has returned, and other requests are handled meanwhile.  An
\* Update is then two steps: handlePutRequest up to the call of the hook,
\* and the callback that commits once the hook has resolved.
\* ------------------------------------------------------------------------
MaxPending == 2   \* Updates suspended at their hook at the same time

AsyncClass == "Brand"
AsyncId == "1"

InitAsync ==
    /\ db = handlePostRequest(PostRequest(AsyncClass, [name |-> Str("a")]),
                              EmptyDb, EmptyMasks, EmptyObj, 0, 0).db
    /\ hooks = registerHook(EmptyObj, AsyncClass, "beforeSave", "beforeSavePromise")
    /\ masks = EmptyMasks
    /\ idCounter = 1
    /\ clock = 0
    /\ indirect = Null
    /\ outOfBandResults = Null
    /\ pending = {}
    /\ resp = NoResp

AsyncUpdatePayloads == {[name |-> Str("b")], [cool |-> Bool(FALSE)], [error |-> Bool(TRUE)]}
AsyncPutRequests ==
    {[className |-> AsyncClass, objectId |-> AsyncId, data |-> data] :
        data \in AsyncUpdatePayloads}

\* handlePutRequest up to runHook: the record is looked up, the draft is
\* built from it and the hook is called; what the callback will need stays
\* in its closure
PutSuspended(request, d, m, hs, now) ==
    LET ap == PutDraft(request, d, m, now)
    IN [request |-> request, updatedObject |-> ap.data, now |-> now,
        toOmit |-> {"createdAt", "objectId"} \cup getMask(ap.masks, request.className),
        settle |-> runHook(hs, request.className, "beforeSave", ap.data)]

\* The callback of handlePutRequest, run when the hook of p has resolved
PutCommitted(p, d, m, counter) ==
    Ended(StoreRecord(d, p.request.className, p.request.objectId,
                      PutStored(p.updatedObject, p.settle.value)),
          m, counter, "ok",
          respond(200, Assign(Omit(p.settle.value, p.toOmit), [updatedAt |-> DateObj(p.now)])),
          Undefined)

AsyncStartPut ==
    \E request \in AsyncPutRequests :
        /\ Cardinality(pending) < MaxPending
        /\ request.objectId \in DOMAIN db[request.className]
        /\ ~PutDraft(request, db, masks, clock).threw
        /\ pending' = pending \cup {PutSuspended(request, db, masks, hooks, clock)}
        /\ masks' = PutDraft(request, db, masks, clock).masks
        /\ resp' = [method |-> "PUT", className |-> request.className,
                    objectId |-> request.objectId, data |-> request.data,
                    outcome |-> "suspended"]
        /\ UNCHANGED <<db, hooks, idCounter, clock, indirect, outOfBandResults>>

AsyncSettle ==
    \E p \in pending :
        LET e == IF p.settle.rejected
                 THEN Ended(db, masks, idCounter, "rejected", NoResponse, p.settle.error)
                 ELSE PutCommitted(p, db, masks, idCounter)
        IN /\ pending' = pending \ {p}
           /\ db' = e.db
           /\ resp' = [method |-> "PUT", className |-> p.request.className,
                       objectId |-> p.request.objectId, data |-> p.request.data,
                       outcome |-> e.outcome, status |-> e.status, response |-> e.response,
                       error |-> e.error]
           /\ UNCHANGED <<hooks, masks, idCounter, clock, indirect, outOfBandResults>>

NextAsync == AsyncStartPut \/ AsyncSettle \/ Tick

SpecAsync == InitAsync /\ [][NextAsync]_vars

\* ------------------------------------------------------------------------
\* Queries: two brands, the second pointing to the first, and up to two items
\* created with a price, a pointer, a nested mapping or a list, read with
\* where clauses of every kind
\* ------------------------------------------------------------------------
MaxItems == 2     \* items created besides the two brands

QryClass == "Item"
SubClass == "Brand"
BrandA == makePointer(SubClass, "1")
BrandB == makePointer(SubClass, "2")

QryCreated ==
    CHOOSE e2 \in {CreatedAfter(e1, SubClass, ("name" :> Str("b")) @@ ("owner" :> BrandA)) :
                      e1 \in {handlePostRequest(PostRequest(SubClass, [name |-> Str("a")]),
                                                EmptyDb, EmptyMasks, EmptyObj, 0, 0)}} : TRUE

InitQry ==
    /\ db = QryCreated.db
    /\ hooks = EmptyObj
    /\ masks = QryCreated.masks
    /\ idCounter = QryCreated.idCounter
    /\ clock = 0
    /\ indirect = Null
    /\ outOfBandResults = Null
    /\ pending = {}
    /\ resp = NoResp

QryPrices == {Num(0), Num(5)}
QryLists ==
    {List(<<>>), List(<<Num(5)>>), List(<<Num(0), Num(1)>>), List(<<BrandA>>)}
QryCreatePayloads ==
    {EmptyObj}
    \cup {[price |-> v] : v \in QryPrices}
    \cup {[brand |-> v] : v \in {BrandA, BrandB, Null}}
    \cup {[info |-> v] : v \in {[name |-> Str("a")], [name |-> Str("b")], Num(5),
                                [more |-> [name |-> Str("a")]]}}
    \cup {[tags |-> v] : v \in QryLists}

\* equalTo, lessThan, ... as the SDK encodes them in a where clause
Constraint(op, v) == op :> v
ComparisonOps == {"$lt", "$lte", "$gt", "$gte"}
PriceParams == {Num(0), Num(5), Num(7)}
PriceWheres ==
    {[price |-> v] : v \in PriceParams}
    \cup {[price |-> Constraint(op, v)] : op \in ComparisonOps, v \in PriceParams}
NullWheres == {[brand |-> Null], [brand |-> Constraint("$ne", Null)]}
OrLists ==
    {<<>>, <<[price |-> Num(5)]>>, <<[price |-> Num(0)], [brand |-> BrandA]>>,
     <<[tags |-> Num(5)], [price |-> Constraint("$gt", Num(0))]>>}
OrWheres == {"$or" :> List(l) : l \in OrLists}
PathValues == {Str("a"), Str("b")}
PathWheres == {k :> v : k \in DOMAIN NestedKeys, v \in PathValues}
ListParams == {Num(0), Num(1), Num(5), Str(""), BrandA, BrandB}
ListWheres == {[tags |-> v] : v \in ListParams}
\* matchesQuery: the brands named a, and the brands owned by one of those
SubQueryA == ("className" :> Str(SubClass)) @@ ("where" :> [name |-> Str("a")])
SubQueryOwned ==
    ("className" :> Str(SubClass)) @@ ("where" :> [owner |-> Constraint("$inQuery", SubQueryA)])
SubQueryNone == ("className" :> Str(SubClass)) @@ ("where" :> [name |-> Str("c")])
SubQueries == {SubQueryA, SubQueryOwned, SubQueryNone}
InQueryWheres == {[brand |-> Constraint("$inQuery", q)] : q \in SubQueries}

QryWheres ==
    PriceWheres \cup NullWheres \cup OrWheres \cup PathWheres \cup ListWheres
    \cup InQueryWheres
QryPostRequests == {PostRequest(QryClass, data) : data \in QryCreatePayloads}
QryFindRequests ==
    {[className |-> QryClass, objectId |-> "", data |-> [where |-> w]] : w \in QryWheres}

QryPost ==
    \E request \in QryPostRequests :
        \E e \in {handlePostRequest(request, db, masks, hooks, idCounter, clock)} :
           /\ e.idCounter <= QryCreated.idCounter + MaxItems
           /\ Handled("POST", request, NoHook, e)

QryFind ==
    \E request \in QryFindRequests :
        \E e \in {handleGetRequest(request, db, masks, hooks, idCounter, clock,
                                  indirect, outOfBandResults)} :
           HandledGet(request, e)

NextQry == QryPost \/ QryFind

SpecQry == InitQry /\ [][NextQry]_vars

\* ------------------------------------------------------------------------
\* Numbers and lists: one record with a price and a list of tags, updated
\* with Increment, Add, AddUnique and Remove
\* ------------------------------------------------------------------------
MaxAmount == 35   \* the largest price, above and below zero
MaxTags == 3      \* length of the list of tags

ArrClass == "Item"
ArrId == "1"
IncrementOp(amount) == ("__op" :> Str("Increment")) @@ ("amount" :> Num(amount))

ArrLists ==
    {<<>>, <<Num(1), Num(5), Num(1)>>, <<Num(5), Num(1), Num(0)>>,
     <<BrandA, BrandB, BrandA>>, <<[x |-> Num(1)]>>}
ArrCreatePayloads ==
    {EmptyObj, [price |-> Num(30)]} \cup {[tags |-> List(l)] : l \in ArrLists}

InitArr ==
    /\ \E data \in ArrCreatePayloads :
          db = handlePostRequest(PostRequest(ArrClass, data),
                                 EmptyDb, EmptyMasks, EmptyObj, 0, 0).db
    /\ hooks = EmptyObj
    /\ masks = EmptyMasks
    /\ idCounter = 1
    /\ clock = 0
    /\ indirect = Null
    /\ outOfBandResults = Null
    /\ pending = {}
    /\ resp = NoResp

IncAmounts == {-5, 30}
UniqueObjects ==
    {<<Num(1)>>, <<Num(1), Num(0)>>, <<BrandA>>, <<[x |-> Num(1)]>>, <<Num(7), Num(7)>>}
RemoveObjects == {<<Num(1)>>, <<Num(1), Num(5)>>, <<BrandA>>, <<[x |-> Num(1)]>>}
ArrUpdatePayloads ==
    {"price" :> IncrementOp(a) : a \in IncAmounts}
    \cup {"tags" :> AddUniqueOp(objects) : objects \in UniqueObjects}
    \cup {"tags" :> RemoveOp(objects) : objects \in RemoveObjects}
    \cup {"tags" :> AddOp(<<Num(1)>>)}

ArrPutRequest(data) == [className |-> ArrClass, objectId |-> ArrId, data |-> data]

\* The price and the list of every record are within the bounds
ArrBounded(d) ==
    \A id \in DOMAIN d[ArrClass] :
        LET price == Get(d[ArrClass][id], "price")
            tags == Get(d[ArrClass][id], "tags")
        IN /\ IsNum(price) => (price.num <= MaxAmount /\ price.num >= -MaxAmount)
           /\ IsList(tags) => Len(tags.list) <= MaxTags

ArrPut ==
    \E data \in ArrUpdatePayloads :
        \E e \in {handlePutRequest(ArrPutRequest(data), db, masks, hooks, idCounter, clock)} :
           /\ ArrBounded(e.db)
           /\ Handled("PUT", ArrPutRequest(data), NoHook, e)

ArrFetch ==
    \E e \in {handleGetRequest(ArrPutRequest(EmptyObj), db, masks, hooks, idCounter, clock,
                              indirect, outOfBandResults)} :
       HandledGet(ArrPutRequest(EmptyObj), e)

NextArr == ArrPut \/ ArrFetch

SpecArr == InitArr /\ [][NextArr]_vars

\* ------------------------------------------------------------------------
\* Includes: records 1 and 2 are leaves, record 3 points to both (a1, a2) and
\* record 4 points to record 3 (b) and holds a list of pointers (items)
\* ------------------------------------------------------------------------
IncClass == "Item"
IncPointer(id) == makePointer(IncClass, id)

\* The payloads of the four Creates, by the id each record is given
IncPayloads ==
    <<[name |-> Str("a")],
      [name |-> Str("b")],
      ("a1" :> IncPointer("1")) @@ ("a2" :> IncPointer("2")),
      ("b" :> IncPointer("3")) @@ ("items" :> List(<<IncPointer("3"), IncPointer("2")>>))>>

\* The store after the four Creates: what handlePostRequest stores for a
\* payload without operations, with no hook registered
IncCreated ==
    [c \in Classes |->
        IF c = IncClass
        THEN [id \in {NumeralStrs[i] : i \in 1..Len(IncPayloads)} |->
                 NewObject(IncPayloads[NumeralOf(id)], id, 0)]
        ELSE EmptyObj]

InitInc ==
    /\ db = IncCreated
    /\ hooks = EmptyObj
    /\ masks = EmptyMasks
    /\ idCounter = Len(IncPayloads)
    /\ clock = 0
    /\ indirect = Null
    /\ outOfBandResults = Null
    /\ pending = {}
    /\ resp = NoResp

\* include clauses, each the sequence of its paths; the first three and the
\* next three share a prefix
IncSingleClauses ==
    {<<(<<"b">>), (<<"b", "a1">>), (<<"b", "a2">>)>>,
     <<(<<"b", "a1">>), (<<"b", "a2">>)>>,
     <<(<<"b", "a2">>), (<<"b">>)>>}
IncListClauses ==
    {<<(<<"items">>), (<<"items", "a1">>)>>,
     <<(<<"items", "a1">>), (<<"items", "a2">>)>>,
     <<(<<"items", "a1">>), (<<"items">>)>>}
IncPaths == {<<"b">>, <<"b", "a1">>, <<"b", "a2">>, <<"items">>, <<"items", "a1">>, <<"items", "a2">>}
IncClauses == IncSingleClauses \cup IncListClauses \cup {<<path>> : path \in IncPaths}
IncQuery(clause) == [where |-> EmptyObj, include |-> List(clause)]

\* record 3 is pointed to another leaf, record 4 to a shorter list
IncPutRequests ==
    {[className |-> IncClass, objectId |-> "3", data |-> [a1 |-> IncPointer("2")]],
     [className |-> IncClass, objectId |-> "4",
      data |-> [items |-> List(<<IncPointer("3")>>)]]}
IncIds == {"1", "2", "3", "4"}

IncPut ==
    \E request \in IncPutRequests :
        \E e \in {handlePutRequest(request, db, masks, hooks, idCounter, clock)} :
           /\ e.status = 200
           /\ Handled("PUT", request, NoHook, e)

IncDelete ==
    \E id \in IncIds \ {"4"} :
        LET request == [className |-> IncClass, objectId |-> id, data |-> EmptyObj]
        IN \E e \in {handleDeleteRequest(request, db, masks, hooks, idCounter, clock)} :
              /\ id \in DOMAIN db[IncClass]
              /\ Handled("DELETE", request, NoHook, e)

IncFind ==
    \E clause \in IncClauses :
        LET request == FindOf(IncClass, IncQuery(clause))
        IN \E e \in {handleGetRequest(request, db, masks, hooks, idCounter, clock,
                                     indirect, outOfBandResults)} :
              HandledGet(request, e)

NextInc == IncPut \/ IncDelete \/ IncFind

SpecInc == InitInc /\ [][NextInc]_vars

\* ------------------------------------------------------------------------
\* Pagination: up to MaxPage records of one class are created, renamed and
\* deleted, and read with a limit and a skip
\* ------------------------------------------------------------------------
MaxPage == 3   \* records created

PageClass == "Item"
PageNames == {Str("a"), Str("b")}
PageIds == {NumeralStrs[i] : i \in 1..MaxPage}
PageWheres == {EmptyObj, [name |-> Str("a")]}
PageLimits == {1, 2}
PageSkips == {1, 2}
\* limit and skip are left out of the request or sent as numbers
PageWindows ==
    {EmptyObj} \cup {[limit |-> Num(l)] : l \in PageLimits}
    \cup {[skip |-> Num(s)] : s \in PageSkips}
    \cup {[limit |-> Num(l), skip |-> Num(s)] : l \in PageLimits, s \in PageSkips}
PageQueries == {Assign([where |-> w], window) : w \in PageWheres, window \in PageWindows}

PagePost ==
    \E name \in PageNames :
        LET request == PostRequest(PageClass, [name |-> name])
        IN \E e \in {handlePostRequest(request, db, masks, hooks, idCounter, clock)} :
              /\ idCounter < MaxPage
              /\ Handled("POST", request, NoHook, e)

PagePut ==
    \E id \in PageIds, name \in PageNames :
        LET request == [className |-> PageClass, objectId |-> id, data |-> [name |-> name]]
        IN \E e \in {handlePutRequest(request, db, masks, hooks, idCounter, clock)} :
              /\ id \in DOMAIN db[PageClass]
              /\ Handled("PUT", request, NoHook, e)

PageDelete ==
    \E id \in PageIds :
        LET request == [className |-> PageClass, objectId |-> id, data |-> EmptyObj]
        IN \E e \in {handleDeleteRequest(request, db, masks, hooks, idCounter, clock)} :
              /\ id \in DOMAIN db[PageClass]
              /\ Handled("DELETE", request, NoHook, e)

PageFind ==
    \E q \in PageQueries :
        LET request == FindOf(PageClass, q)
        IN \E e \in {handleGetRequest(request, db, masks, hooks, idCounter, clock,
                                     indirect, outOfBandResults)} :
              HandledGet(request, e)

NextPage == PagePost \/ PagePut \/ PageDelete \/ PageFind

SpecPage == Init /\ [][NextPage]_vars

\* ------------------------------------------------------------------------
\* Windows: a class that holds as many records as a window, or up to
\* MaxOver more, is read without a limit and with limits around both sizes
\* ------------------------------------------------------------------------
MaxOver == 2   \* records created beyond the size of a window

WinClass == "Item"
WinSizes == {DEFAULT_LIMIT, HARD_LIMIT}

\* The store after n Creates of {name: "a"} with no hook registered
WinCreated(n) ==
    [c \in Classes |->
        IF c = WinClass
        THEN [id \in {ToString(i) : i \in 1..n} |-> NewObject([name |-> Str("a")], id, 0)]
        ELSE EmptyObj]

InitWin ==
    /\ \E n \in WinSizes : db = WinCreated(n) /\ idCounter = n
    /\ hooks = EmptyObj
    /\ masks = EmptyMasks
    /\ clock = 0
    /\ indirect = Null
    /\ outOfBandResults = Null
    /\ pending = {}
    /\ resp = NoResp

WinLimits == {1, DEFAULT_LIMIT + 1, HARD_LIMIT + 1, 2 * HARD_LIMIT}
WinSkips == {EmptyObj, [skip |-> Num(1)]}
WinQueries ==
    {Assign([where |-> EmptyObj], skip) : skip \in WinSkips}
    \cup {Assign([where |-> EmptyObj, limit |-> Num(l)], skip) : l \in WinLimits, skip \in WinSkips}

WinPost ==
    LET request == PostRequest(WinClass, [name |-> Str("a")])
    IN \E e \in {handlePostRequest(request, db, masks, hooks, idCounter, clock)} :
          /\ \E n \in WinSizes : idCounter - n \in 0..(MaxOver - 1)
          /\ Handled("POST", request, NoHook, e)

WinDelete ==
    LET request == [className |-> WinClass, objectId |-> "1", data |-> EmptyObj]
    IN \E e \in {handleDeleteRequest(request, db, masks, hooks, idCounter, clock)} :
          /\ "1" \in DOMAIN db[WinClass]
          /\ Handled("DELETE", request, NoHook, e)

WinFind ==
    \E q \in WinQueries :
        LET request == FindOf(WinClass, q)
        IN \E e \in {handleGetRequest(request, db, masks, hooks, idCounter, clock,
                                     indirect, outOfBandResults)} :
              HandledGet(request, e)

NextWin == WinPost \/ WinDelete \/ WinFind

SpecWin == InitWin /\ [][NextWin]_vars

\* ------------------------------------------------------------------------
\* Order of hook and operators: records of one class are created and
\* updated, with payloads that carry an error field and operators, before
\* and after beforeSavePromise is registered for beforeSave
\* ------------------------------------------------------------------------
MaxOrd == 2   \* records created

OrdClass == "Brand"
OrdIds == {NumeralStrs[i] : i \in 1..MaxOrd}
OrdRelation == "items" :> AddRelationOp(<<Target>>)
OrdCreatePayloads ==
    {[name |-> Str("a")], [error |-> Bool(TRUE)], Assign([name |-> Str("a")], OrdRelation),
     Assign([error |-> Bool(TRUE)], OrdRelation)}
OrdUpdatePayloads ==
    {[name |-> Str("b")], [error |-> Bool(TRUE)], [error |-> DeleteOp],
     Assign([error |-> Bool(TRUE)], OrdRelation)}
OrdPostRequests == {PostRequest(OrdClass, data) : data \in OrdCreatePayloads}
OrdPutRequests ==
    {[className |-> OrdClass, objectId |-> id, data |-> data] :
        id \in OrdIds, data \in OrdUpdatePayloads}

OrdRegister ==
    /\ hooks' = registerHook(hooks, OrdClass, "beforeSave", "beforeSavePromise")
    /\ resp' = [method |-> "registerHook"]
    /\ UNCHANGED <<db, masks, idCounter, clock, indirect, outOfBandResults, pending>>

OrdPost ==
    \E request \in OrdPostRequests :
        \E e \in {handlePostRequest(request, db, masks, hooks, idCounter, clock)} :
           /\ e.idCounter <= MaxOrd
           /\ Handled("POST", request, getHook(hooks, OrdClass, "beforeSave"), e)

OrdPut ==
    \E request \in OrdPutRequests :
        \E e \in {handlePutRequest(request, db, masks, hooks, idCounter, clock)} :
           /\ request.objectId \in DOMAIN db[OrdClass]
           /\ ListsBounded(e.db)
           /\ Handled("PUT", request, getHook(hooks, OrdClass, "beforeSave"), e)

OrdFetch ==
    \E id \in OrdIds :
        LET request == [className |-> OrdClass, objectId |-> id, data |-> EmptyObj]
        IN \E e \in {handleGetRequest(request, db, masks, hooks, idCounter, clock,
                                     indirect, outOfBandResults)} :
              HandledGet(request, e)

NextOrd == OrdRegister \/ OrdPost \/ OrdPut \/ OrdFetch

SpecOrd == Init /\ [][NextOrd]_vars

\* ------------------------------------------------------------------------
\* Deferred hooks and deletes: the record of the deferred Updates above may
\* be deleted, by a request handled while their hooks are pending.  No
\* beforeDelete hook is registered, so that the delete ends within its call.
\* ------------------------------------------------------------------------
AsyncDelete ==
    LET request == [className |-> AsyncClass, objectId |-> AsyncId, data |-> EmptyObj]
    IN \E e \in {handleDeleteRequest(request, db, masks, hooks, idCounter, clock)} :
          /\ db' = e.db
          /\ resp' = [method |-> "DELETE", className |-> request.className,
                      objectId |-> request.objectId, data |-> request.data,
                      outcome |-> e.outcome, status |-> e.status, response |-> e.response,
                      error |-> e.error]
          /\ UNCHANGED <<hooks, masks, idCounter, clock, indirect, outOfBandResults, pending>>

NextGone == AsyncStartPut \/ AsyncSettle \/ AsyncDelete \/ Tick

SpecGone == InitAsync /\ [][NextGone]_vars

\* ------------------------------------------------------------------------
\* Failing writes: the store and the Updates of the operators above, with
\* Creates whose operators succeed, meet an unknown operator, or are array
\* operators on the id that Object.assign has just written to the draft
\* ------------------------------------------------------------------------
MaxFail == 3      \* ids handed out to Creates, failed ones included

FailCreatePayloads ==
    {[name |-> Str("a")],
     OpsKey :> AddOp(<<Num(1)>>),
     "name" :> BogusOp,
     (OpsKey :> AddOp(<<Num(1)>>)) @@ ("name" :> BogusOp),
     ("items" :> AddRelationOp(<<Target>>)) @@ ("name" :> BogusOp),
     "objectId" :> AddOp(<<Num(1)>>),
     ("name" :> Str("a")) @@ ("objectId" :> RemoveOp(<<Num(1)>>))}

FailPostRequests == {PostRequest(OpsClass, data) : data \in FailCreatePayloads}

FailPost ==
    \E request \in FailPostRequests :
        \E e \in {handlePostRequest(request, db, masks, hooks, idCounter, clock)} :
           /\ e.idCounter <= MaxFail
           /\ Handled("POST", request, NoHook, e)

NextFail == FailPost \/ OpsPut \/ Tick

SpecFail == InitOps /\ [][NextFail]_vars

\* ------------------------------------------------------------------------
\* Updates among other records: two brands and an item, created in this
\* order with no hook registered, and Updates of each of them with plain
\* values, with each kind of operator and with the id fields, before and
\* after a beforeSave hook is registered on the brands
\* ------------------------------------------------------------------------
MaxCool == 2      \* the largest count an Increment leaves

FrameIds == {"1", "2", "3"}

FrameCreated ==
    ("Brand" :> (("1" :> NewObject([name |-> Str("a")], "1", 0))
                 @@ ("2" :> NewObject([name |-> Str("a"), cool |-> Num(1)], "2", 0))))
    @@ ("Item" :> ("3" :> NewObject([name |-> Str("a")], "3", 0)))

InitFrame ==
    /\ db = FrameCreated
    /\ hooks = EmptyObj
    /\ masks = EmptyMasks
    /\ idCounter = 3
    /\ clock = 0
    /\ indirect = Null
    /\ outOfBandResults = Null
    /\ pending = {}
    /\ resp = NoResp

FramePayloads ==
    UpdatePayloads \cup
    {[name |-> DeleteOp], [cool |-> AddOp(<<Num(1)>>)],
     [name |-> Str("b"), cool |-> IncrementOp(1)],
     [objectId |-> Str("9")], [createdAt |-> DeleteOp]}

FramePutRequests ==
    {[className |-> c, objectId |-> id, data |-> data] :
        c \in Classes, id \in FrameIds, data \in FramePayloads}

\* The Updates that are carried out: a value, a Delete, an Increment and a
\* relation on the first brand, a value on the other records
FrameActed ==
    {request \in FramePutRequests :
        \/ request.data = [name |-> Str("b")]
        \/ /\ request.objectId = "1"
           /\ request.data \in {[name |-> DeleteOp], [items |-> AddRelationOp(<<Target>>)],
                                [name |-> Str("b"), cool |-> IncrementOp(1)]}}

FramePut ==
    \E request \in FrameActed :
        \E e \in {handlePutRequest(request, db, masks, hooks, idCounter, clock)} :
           /\ ListsBounded(e.db)
           /\ \A c \in Classes : \A id \in DOMAIN e.db[c] :
                 IsNum(Get(e.db[c][id], "cool")) => e.db[c][id]["cool"].num <= MaxCool
           /\ Handled("PUT", request, getHook(hooks, request.className, "beforeSave"), e)

NextFrame == FramePut \/ OrdRegister \/ Tick

SpecFrame == InitFrame /\ [][NextFrame]_vars

\* ------------------------------------------------------------------------
\* Properties.  A handler is a function of the request and the state it
\* reads, so what a request does in a state is stated on the handler's value
\* there; "afterwards" is the store the handler leaves.
\* ------------------------------------------------------------------------
PostNow(request) == handlePostRequest(request, db, masks, hooks, idCounter, clock)
PutNow(request) == handlePutRequest(request, db, masks, hooks, idCounter, clock)
DeleteNow(request) == handleDeleteRequest(request, db, masks, hooks, idCounter, clock)
GetNow(request) ==
    handleGetRequest(request, db, masks, hooks, idCounter, clock, indirect, outOfBandResults)
\* A Read issued right after a request that ended with e
GetAfter(e, request) ==
    handleGetRequest(request, e.db, e.masks, hooks, e.idCounter, clock,
                     indirect, outOfBandResults)

FetchOf(className, id) == [className |-> className, objectId |-> id, data |-> EmptyObj]
FindAll(className) == [className |-> className, objectId |-> "", data |-> [where |-> EmptyObj]]

HasOps(data) == \E k \in DOMAIN data : isOp(data[k])
Stored(request) == request.objectId \in DOMAIN db[request.className]

\* What the hook registered for (className, hookType) does when it is run on data
HookOn(className, hookType, data) ==
    HookCall(getHook(hooks, className, hookType),
             fromJSON(Assign(data, "className" :> Str(className))))
Registered(className, hookType) == getHook(hooks, className, hookType) # NoHook

IdFields == {"objectId", "createdAt", "updatedAt"}

\* C1: with no beforeSave hook on the class, a Create whose payload holds no
\* atomic operator succeeds, and a Read by the returned objectId right after
\* it returns status 200 and a record with exactly the payload's fields plus
\* objectId, createdAt and updatedAt, where createdAt equals updatedAt.
C1_CreateThenFetch ==
    \A request \in PostRequests :
        (~Registered(request.className, "beforeSave") /\ ~HasOps(request.data)) =>
            LET e == PostNow(request)
                r == GetAfter(e, FetchOf(request.className, e.response["objectId"].str))
            IN /\ e.outcome = "ok"
               /\ r.outcome = "ok" /\ r.status = 200
               /\ DOMAIN r.response = DOMAIN request.data \cup IdFields
               /\ \A k \in DOMAIN request.data : r.response[k] = request.data[k]
               /\ r.response["objectId"] = e.response["objectId"]
               /\ r.response["createdAt"] = r.response["updatedAt"]

C1_Witness ==
    /\ resp.method = "POST" /\ resp.hook = NoHook /\ resp.outcome = "ok"
    /\ resp.data = [name |-> Str("a")]
    /\ clock = MaxTime
    /\ db[resp.className][resp.response["objectId"].str]["name"] = Str("a")

\* C2: when the beforeSave hook of class C rejects with e during a Create
\* addressed to C, the Create fails with exactly e, and every collection
\* holds the same records as before.
C2_RejectedCreate ==
    \A request \in PostRequests :
        (/\ Registered(request.className, "beforeSave")
         /\ HookOn(request.className, "beforeSave", request.data).rejected) =>
            LET e == PostNow(request)
            IN /\ e.outcome = "rejected"
               /\ e.error = HookOn(request.className, "beforeSave", request.data).error
               /\ e.db = db

C2_Witness ==
    /\ resp.method = "POST" /\ resp.outcome = "rejected" /\ resp.error = Str("whoah")
    /\ resp.hook = "beforeSavePromise"
    /\ db[resp.className] # EmptyObj

\* C3: when the beforeSave hook rejects during an Update, the Update fails
\* with the hook's error and the store, collections and field masks alike, is
\* as it was before the call, also for a payload with AddRelation or
\* RemoveRelation.
C3_RejectedUpdate ==
    \A request \in PutRequests :
        (/\ Stored(request)
         /\ ~PutDraft(request, db, masks, clock).threw
         /\ Registered(request.className, "beforeSave")
         /\ HookOn(request.className, "beforeSave",
                   PutDraft(request, db, masks, clock).data).rejected) =>
            LET e == PutNow(request)
            IN /\ e.outcome = "rejected"
               /\ e.error = Str("whoah")
               /\ e.db = db
               /\ e.masks = masks

\* C4: when the beforeDelete hook of class C rejects with e during a Delete
\* of a stored record of C, the Delete fails with exactly e and the record
\* stays stored unchanged: a query on C right after still returns it.
C4_RejectedDelete ==
    \A request \in DeleteRequests :
        (/\ Stored(request)
         /\ Registered(request.className, "beforeDelete")
         /\ HookOn(request.className, "beforeDelete",
                   db[request.className][request.objectId]).rejected) =>
            LET e == DeleteNow(request)
                found == GetAfter(e, FindAll(request.className)).response["results"].list
            IN /\ e.outcome = "rejected"
               /\ e.error = HookOn(request.className, "beforeDelete",
                                   db[request.className][request.objectId]).error
               /\ e.db = db
               /\ \E i \in 1..Len(found) : found[i]["objectId"] = Str(request.objectId)

C4_Witness ==
    /\ resp.method = "DELETE" /\ resp.outcome = "rejected" /\ resp.error = Str("whoah")
    /\ resp.objectId \in DOMAIN db[resp.className]

\* C5: when the beforeSave hook of class C resolves with a replacement
\* object, a Create addressed to C stores and returns the replacement's
\* fields: the response and a query on C right after carry every field the
\* replacement holds (those an operator or a mask hides aside).
C5_CreateAdoptsReplacement ==
    \A request \in PostRequests :
        LET call == HookOn(request.className, "beforeSave", request.data)
            replacement == toJSON(call.model)
            plain == {k \in DOMAIN replacement : ~isOp(replacement[k])} \ masks[request.className]
            e == PostNow(request)
            found == GetAfter(e, FindAll(request.className)).response["results"].list
        IN (/\ Registered(request.className, "beforeSave")
            /\ ~call.rejected /\ call.override) =>
               /\ e.outcome = "ok" /\ e.status = 201
               /\ \A k \in plain : Get(e.response, k) = replacement[k]
               /\ \E i \in 1..Len(found) :
                     /\ found[i]["objectId"] = e.response["objectId"]
                     /\ \A k \in plain : Get(found[i], k) = replacement[k]

C5_Witness ==
    /\ resp.method = "POST" /\ resp.hook = "beforeSavePromise" /\ resp.outcome = "ok"
    /\ resp.data = [name |-> Str("a")]
    /\ resp.response["cool"] = Bool(TRUE)
    /\ db[resp.className][resp.response["objectId"].str]["cool"] = Bool(TRUE)

\* C6: when the beforeSave hook resolves with a replacement object during an
\* Update, the stored record is the replacement: a Read by id right after
\* returns the field values the hook set.
C6_UpdateAdoptsReplacement ==
    \A request \in PutRequests :
        LET draft == PutDraft(request, db, masks, clock)
            call == HookOn(request.className, "beforeSave", draft.data)
            replacement == toJSON(call.model)
            r == GetAfter(PutNow(request), FetchOf(request.className, request.objectId))
        IN (/\ Stored(request) /\ ~draft.threw
            /\ Registered(request.className, "beforeSave")
            /\ ~call.rejected /\ call.override) =>
               \A k \in DOMAIN replacement \ {"createdAt", "updatedAt"} :
                   Get(r.response, k) = replacement[k]

\* C7: when a registered beforeSave hook resolves without an override value,
\* the Create or Update stores the record it would have stored with no hook
\* registered.
C7_NoOverrideKeepsDraft ==
    /\ \A request \in PostRequests :
          LET call == HookOn(request.className, "beforeSave", request.data)
          IN (/\ Registered(request.className, "beforeSave")
              /\ ~call.rejected /\ ~call.override) =>
                 PostNow(request).db =
                     handlePostRequest(request, db, masks, EmptyObj, idCounter, clock).db
    /\ \A request \in PutRequests :
          LET draft == PutDraft(request, db, masks, clock)
              call == HookOn(request.className, "beforeSave", draft.data)
          IN (/\ Stored(request) /\ ~draft.threw
              /\ Registered(request.className, "beforeSave")
              /\ ~call.rejected /\ ~call.override) =>
                 PutNow(request).db =
                     handlePutRequest(request, db, masks, EmptyObj, idCounter, clock).db

\* C8: after cleanUp the collections, the field masks and the hook registry
\* are all empty.
C8_CleanUpEmptiesAll ==
    resp.method = "cleanUp" => (db = EmptyDb /\ hooks = EmptyObj /\ masks = EmptyMasks)

\* C9: a Read by id or an Update addressed to an id that is not stored in
\* the class ends with status 404 and an error body with code 101, raises
\* nothing, and leaves every stored record and the field masks unchanged.
C9_MissingIdIs404 ==
    /\ \A request \in FetchRequests :
          ~Stored(request) =>
              LET e == GetNow(request)
              IN /\ e.outcome = "ok" /\ e.status = 404
                 /\ e.response["code"] = Num(101)
                 /\ e.db = db /\ e.masks = masks
    /\ \A request \in PutRequests :
          ~Stored(request) =>
              LET e == PutNow(request)
              IN /\ e.outcome = "ok" /\ e.status = 404
                 /\ e.response["code"] = Num(101)
                 /\ e.db = db /\ e.masks = masks

C9_Witness ==
    /\ resp.method = "PUT" /\ resp.status = 404
    /\ isOp(Get(resp.data, "items"))
    /\ \E c \in Classes : db[c] # EmptyObj

\* C10: a Delete addressed to an id that is not stored in the class ends
\* with a 404 response: not with a success, not with an exception.
C10_MissingDeleteIs404 ==
    \A request \in DeleteRequests :
        ~Stored(request) =>
            (DeleteNow(request).outcome = "ok" /\ DeleteNow(request).status = 404)

\* ------------------------------------------------------------------------
\* Properties of relations and reads
\* ------------------------------------------------------------------------
Results(r) == r.response["results"].list
\* a query that asks for the count is answered with no results
HasResults(r) == "results" \in DOMAIN r.response

\* C11: after a successful Delete of a stored record, the collection holds
\* no entry under its id, a Read by that id answers 404, and no query on
\* the class returns a record with that objectId.
C11_DeleteThenGone ==
    \A request \in RelDeleteRequests :
        LET e == DeleteNow(request)
            c == request.className
            id == request.objectId
        IN (Stored(request) /\ e.outcome = "ok") =>
              /\ id \notin DOMAIN e.db[c]
              /\ GetAfter(e, FetchOf(c, id)).status = 404
              /\ \A q \in RelFindRequests :
                    LET r == GetAfter(e, q)
                    IN (q.className = c /\ r.outcome = "ok" /\ HasResults(r)) =>
                          \A i \in 1..Len(Results(r)) :
                              Get(Results(r)[i], "objectId") # Str(id)

\* C12: once AddRelation or RemoveRelation has been applied to field f of a
\* record of a class, so that f is in the class's mask, no Read response
\* holds f on a record of the class, read by id or returned by a query.
C12_MaskedFieldNeverRead ==
    \A f \in masks[RelClass] :
        /\ \A request \in RelFetchRequests :
              Stored(request) => f \notin DOMAIN GetNow(request).response
        /\ \A request \in RelFindRequests :
              LET r == GetNow(request)
              IN (r.outcome = "ok" /\ HasResults(r)) =>
                    \A i \in 1..Len(Results(r)) : f \notin DOMAIN Results(r)[i]

\* The ids the relation of the owner points to, those of stored records
RelatedStoredIds ==
    LET relation == db[RelClass][RelOwner][RelKey].list
    IN {id \in DOMAIN db[RelClass] :
           \E i \in 1..Len(relation) : relation[i]["objectId"] = Str(id)}

\* C13: after AddRelation and RemoveRelation operators on the relation field
\* of a stored owner, the relation query, direct or through
\* redirectClassNameForKey, returns exactly the stored records the relation
\* points to, each once.
C13_RelatedToIsExact ==
    \A q \in {DirectQuery, IndirectQuery} :
        (RelOwner \in DOMAIN db[RelClass] /\ IsList(Get(db[RelClass][RelOwner], RelKey))) =>
            LET r == GetNow([className |-> RelClass, objectId |-> "", data |-> q])
            IN /\ r.outcome = "ok"
               /\ {Results(r)[i]["objectId"].str : i \in 1..Len(Results(r))} = RelatedStoredIds
               /\ Len(Results(r)) = Cardinality(RelatedStoredIds)

HasUnknownOp(data) ==
    \E k \in DOMAIN data : isOp(data[k]) /\ data[k]["__op"].str \notin UPDATE_OPERATOR_NAMES

\* The draft of an Update before any operator is applied
PutBase(request) ==
    UpdatedObject(db[request.className][request.objectId], extractOps(request.data).data, clock)

\* C14: an Update whose payload holds an operation with an unknown operator
\* name is rejected, and nothing shows the effect of any operator of the
\* payload: the draft is the merge without operators, and the store and the
\* field masks are as before.
C14_UnknownOpAppliesNothing ==
    \A request \in OpsPutRequests :
        (Stored(request) /\ HasUnknownOp(request.data)) =>
            LET ap == PutDraft(request, db, masks, clock)
                e == PutNow(request)
            IN /\ ap.threw /\ e.outcome = "threw"
               /\ ap.data = PutBase(request)
               /\ e.db = db /\ e.masks = masks

ArrayOpNames == {"Add", "AddUnique", "Remove"}
IsNonListValue(v) == IsNum(v) \/ IsStr(v) \/ IsBool(v) \/ IsPlainObject(v)

\* C15: Add, AddUnique or Remove on a field that holds a number, a string, a
\* boolean or a mapping fails, and the stored field is as before.
C15_ArrayOpOnNonListFails ==
    \A request \in OpsPutRequests :
        LET current == db[request.className][request.objectId]
            e == PutNow(request)
        IN (/\ Stored(request)
            /\ DOMAIN request.data = {OpsKey}
            /\ request.data[OpsKey]["__op"].str \in ArrayOpNames
            /\ IsNonListValue(Get(current, OpsKey))) =>
               /\ e.outcome = "threw"
               /\ e.db[request.className][request.objectId][OpsKey] = current[OpsKey]

\* C16: every record stored under key id has objectId id; a Create hands out
\* an id that is not stored in the class and was never handed out; and no
\* Update changes the objectId of the record it is addressed to.
C16_ObjectIdIsKey ==
    /\ \A c \in Classes : \A id \in DOMAIN db[c] : Get(db[c][id], "objectId") = Str(id)
    /\ \A request \in IdsPostRequests :
          LET e == PostNow(request)
          IN e.outcome = "ok" =>
                \E id \in DOMAIN e.db[request.className] \ DOMAIN db[request.className] :
                    NumeralOf(id) > idCounter
    /\ \A request \in IdsPutRequests :
          LET e == PutNow(request)
          IN (Stored(request) /\ e.outcome = "ok") =>
                Get(e.db[request.className][request.objectId], "objectId") =
                    Get(db[request.className][request.objectId], "objectId")

\* C17: a successful Update leaves createdAt as it is stored and sets
\* updatedAt to the time of the Update, which is not before the stored one.
C17_TimestampsKept ==
    \A request \in IdsPutRequests :
        LET e == PutNow(request)
            before == db[request.className][request.objectId]
            after == e.db[request.className][request.objectId]
        IN (Stored(request) /\ e.outcome = "ok") =>
              /\ Get(after, "createdAt") = Get(before, "createdAt")
              /\ Get(after, "updatedAt") = DateObj(clock)


\* C20: a Read by query with no where clause, or with an empty one, returns
\* every record of the class (the collections of the model are below the
\* default limit).
C20_NoWhereMatchesAll ==
    \A c \in Classes : \A q \in {EmptyObj, [where |-> EmptyObj]} :
        LET r == GetNow(FindOf(c, q))
        IN /\ r.outcome = "ok"
           /\ {Results(r)[i]["objectId"].str : i \in 1..Len(Results(r))} = DOMAIN db[c]
           /\ Len(Results(r)) = Cardinality(DOMAIN db[c])

\* C18: an Update that was suspended at its hook commits the merge of its
\* payload over the record as it is stored when it commits, so that no
\* change another Update committed meanwhile is lost.
C18_CommitMergesOverStored ==
    \A p \in pending :
        ~p.settle.rejected =>
            LET stored == db[p.request.className][p.request.objectId]
                e == PutCommitted(p, db, masks, idCounter)
            IN e.db[p.request.className][p.request.objectId] =
                   UpdatedObject(stored, extractOps(p.request.data).data, p.now)

\* ------------------------------------------------------------------------
\* Properties of the where clause
\* ------------------------------------------------------------------------
\* The ids of the records a find with this where clause returns now
FoundIds(className, where) ==
    LET r == GetNow(FindOf(className, [where |-> where]))
    IN {Results(r)[i]["objectId"].str : i \in 1..Len(Results(r))}

\* A find with this where clause is answered with exactly the records ids,
\* each once
Finds(className, where, ids) ==
    LET r == GetNow(FindOf(className, [where |-> where]))
    IN /\ r.outcome = "ok" /\ r.status = 200 /\ HasResults(r)
       /\ FoundIds(className, where) = ids
       /\ Len(Results(r)) = Cardinality(ids)

\* The stored records of a class whose field key satisfies P
StoredWith(className, key, P(_)) ==
    {id \in DOMAIN db[className] : P(Get(db[className][id], key))}

\* The last request was a find with this where clause that returned n records
Found(where, n) ==
    /\ resp.method = "GET" /\ resp.outcome = "ok" /\ resp.objectId = ""
    /\ resp.data = [where |-> where]
    /\ Len(resp.response["results"].list) = n

\* C21: on records with a numeric price, equalTo(price, v) returns exactly
\* the records whose price is v, lessThan and greaterThan exactly those whose
\* price is below and above v, and lessThanOrEqualTo and
\* greaterThanOrEqualTo those and the records whose price is v.
C21_NumericComparisons ==
    \A v \in PriceParams :
        /\ Finds(QryClass, [price |-> v],
                 StoredWith(QryClass, "price", LAMBDA p : IsNum(p) /\ p.num = v.num))
        /\ Finds(QryClass, [price |-> Constraint("$lt", v)],
                 StoredWith(QryClass, "price", LAMBDA p : IsNum(p) /\ p.num < v.num))
        /\ Finds(QryClass, [price |-> Constraint("$gt", v)],
                 StoredWith(QryClass, "price", LAMBDA p : IsNum(p) /\ p.num > v.num))
        /\ Finds(QryClass, [price |-> Constraint("$lte", v)],
                 StoredWith(QryClass, "price", LAMBDA p : IsNum(p) /\ p.num <= v.num))
        /\ Finds(QryClass, [price |-> Constraint("$gte", v)],
                 StoredWith(QryClass, "price", LAMBDA p : IsNum(p) /\ p.num >= v.num))

\* Items priced 0 and 5 are stored, and lessThan(price, 5) returned one record
C21_Witness ==
    /\ Found([price |-> Constraint("$lt", Num(5))], 1)
    /\ StoredWith(QryClass, "price", LAMBDA p : p = Num(5)) # {}
    /\ StoredWith(QryClass, "price", LAMBDA p : p = Num(0)) # {}

\* C22: equalTo(field, null) returns exactly the records whose field is
\* absent or null, and notEqualTo(field, null) exactly the records whose
\* field holds a value that is not null.
C22_NullEquality ==
    /\ Finds(QryClass, [brand |-> Null],
             StoredWith(QryClass, "brand", LAMBDA b : IsUndefined(b) \/ IsNull(b)))
    /\ Finds(QryClass, [brand |-> Constraint("$ne", Null)],
             StoredWith(QryClass, "brand", LAMBDA b : ~IsUndefined(b) /\ ~IsNull(b)))

\* C23: a where clause with $or returns exactly the records that one of its
\* sub-clauses returns, and none when the list is empty.
C23_OrMatchesAny ==
    \A l \in OrLists :
        Finds(QryClass, "$or" :> List(l),
              UNION {FoundIds(QryClass, l[i]) : i \in 1..Len(l)})

\* The last find had two sub-clauses and returned a record that only one of
\* them matches
C23_Witness ==
    \E l \in OrLists :
        /\ Len(l) = 2
        /\ \E n \in 1..MaxItems : Found("$or" :> List(l), n)
        /\ FoundIds(QryClass, l[1]) # FoundIds(QryClass, l[2])
        /\ FoundIds(QryClass, l[1]) \cup FoundIds(QryClass, l[2])
               # DOMAIN db[QryClass]

RECURSIVE ValueAt(_, _)
\* The value a record holds at a path, undefined when a segment is absent
ValueAt(object, path) ==
    IF path = <<>> THEN object
    ELSE IF ~IsPlainObject(object) \/ Head(path) \notin DOMAIN object THEN Undefined
    ELSE ValueAt(object[Head(path)], Tail(path))

\* C24: a where clause whose key is a dotted path returns exactly the records
\* that hold the constraint's value at the end of the path; a record on which
\* a segment is absent is not returned, and the find raises no error.
C24_DottedPath ==
    \A k \in DOMAIN NestedKeys, v \in PathValues :
        Finds(QryClass, k :> v,
              {id \in DOMAIN db[QryClass] : ValueAt(db[QryClass][id], NestedKeys[k]) = v})

\* A find on the path of three segments returned the one record holding the
\* value, while a record whose info has no such segment is stored
C24_Witness ==
    /\ Found("info.more.name" :> Str("a"), 1)
    /\ \E id \in DOMAIN db[QryClass] :
          /\ "info" \in DOMAIN db[QryClass][id]
          /\ IsUndefined(Prop(db[QryClass][id]["info"], "more"))

\* C25: an equality constraint with a scalar or a pointer returns, among
\* the records whose field holds a list, exactly those whose list has an
\* element equal to the value.
C25_ListHoldsValue ==
    \A v \in ListParams :
        Finds(QryClass, [tags |-> v],
              StoredWith(QryClass, "tags",
                         LAMBDA t : IsList(t) /\ \E i \in 1..Len(t.list) :
                                                    objectsAreEqual(t.list[i], v)))

\* C26: a constraint $inQuery on a pointer field returns exactly the records
\* whose pointer names a record the sub-query returns, for a sub-query that
\* itself holds a sub-query as well; a record without the field is not
\* returned.
C26_InQuery ==
    /\ \A q \in SubQueries :
          Finds(QryClass, [brand |-> Constraint("$inQuery", q)],
                StoredWith(QryClass, "brand",
                           LAMBDA b : isPointer(b)
                                      /\ b["objectId"].str \in FoundIds(SubClass, q["where"])))
    /\ Finds(SubClass, SubQueryOwned["where"],
             StoredWith(SubClass, "owner",
                        LAMBDA b : isPointer(b)
                                   /\ b["objectId"].str \in FoundIds(SubClass, SubQueryA["where"])))

\* The nested sub-query returned the item of the owned brand, while an item
\* of the other brand is stored
C26_Witness ==
    /\ Found([brand |-> Constraint("$inQuery", SubQueryOwned)], 1)
    /\ StoredWith(QryClass, "brand", LAMBDA b : b = BrandA) # {}
    /\ FoundIds(SubClass, SubQueryOwned["where"]) = {"2"}

\* ------------------------------------------------------------------------
\* Properties of Increment, AddUnique and Remove
\* ------------------------------------------------------------------------
\* The record of SpecArr and its field key once an Update with data is done
ArrRecord == db[ArrClass][ArrId]
ArrAfter(data, key) == Get(PutNow(ArrPutRequest(data)).db[ArrClass][ArrId], key)
\* The list a field holds, none when the field is absent
ListOf(v) == IF IsList(v) THEN v.list ELSE <<>>

\* C27: Increment by amount leaves amount in a field that was absent and
\* v + amount in a field that held the number v, for negative amounts too,
\* in an Update and in a Create.
C27_IncrementAdds ==
    \A a \in IncAmounts :
        LET cur == Get(ArrRecord, "price")
            e == PutNow(ArrPutRequest("price" :> IncrementOp(a)))
            c == PostNow(PostRequest(ArrClass, "price" :> IncrementOp(a)))
        IN /\ e.outcome = "ok"
           /\ ArrAfter("price" :> IncrementOp(a), "price")
                  = (IF IsUndefined(cur) THEN Num(a) ELSE Num(cur.num + a))
           /\ e.response["price"] = ArrAfter("price" :> IncrementOp(a), "price")
           /\ c.outcome = "ok"
           /\ c.db[ArrClass][uniqueId(idCounter)]["price"] = Num(a)

\* The price 30 was incremented by -5
C27_Witness ==
    /\ resp.method = "PUT" /\ resp.outcome = "ok"
    /\ resp.data = "price" :> IncrementOp(-5)
    /\ ArrRecord["price"] = Num(25)

RECURSIVE AppendNew(_, _)
\* list followed by the elements of objects that are in the list at no place
AppendNew(list, objects) ==
    IF objects = <<>> THEN list
    ELSE AppendNew(IF \E i \in 1..Len(list) : list[i] = Head(objects)
                   THEN list ELSE Append(list, Head(objects)),
                   Tail(objects))

\* C28: AddUnique appends the elements of objects that are not yet in the
\* list, and appends no element that equals an entry of the list, be it a
\* scalar, a pointer or a mapping.
C28_AddUniqueNoDuplicate ==
    \A objects \in UniqueObjects :
        LET e == PutNow(ArrPutRequest("tags" :> AddUniqueOp(objects)))
        IN /\ e.outcome = "ok"
           /\ ArrAfter("tags" :> AddUniqueOp(objects), "tags")
                  = List(AppendNew(ListOf(Get(ArrRecord, "tags")), objects))

\* C29: Remove leaves exactly the elements of the list that are equal, by
\* objectsAreEqual, to no element of objects, in their order.
C29_RemoveAllEqual ==
    \A objects \in RemoveObjects :
        LET e == PutNow(ArrPutRequest("tags" :> RemoveOp(objects)))
        IN /\ e.outcome = "ok"
           /\ ArrAfter("tags" :> RemoveOp(objects), "tags")
                  = List(SelectSeq(ListOf(Get(ArrRecord, "tags")),
                                   LAMBDA item : \A i \in 1..Len(objects) :
                                                    ~objectsAreEqual(item, objects[i])))

\* Remove of 1 took both occurrences out of a list of three and left the 5
C29_Witness ==
    /\ resp.method = "PUT" /\ resp.outcome = "ok"
    /\ resp.data = "tags" :> RemoveOp(<<Num(1)>>)
    /\ ArrRecord["tags"] = List(<<Num(5)>>)

\* ------------------------------------------------------------------------
\* Properties of include
\* ------------------------------------------------------------------------
RECURSIVE At(_, _)
\* What a result holds at a path, element by element where it holds a list
At(v, path) ==
    IF IsList(v) THEN List([i \in 1..Len(v.list) |-> At(v.list[i], path)])
    ELSE IF path = <<>> THEN v
    ELSE At(Prop(v, Head(path)), Tail(path))

RECURSIVE Discards(_, _)
\* A place that alone holds an expanded object holds none in together
Discards(together, alone) ==
    IF IsList(alone)
    THEN \/ ~IsList(together) \/ Len(together.list) # Len(alone.list)
         \/ \E i \in 1..Len(alone.list) : Discards(together.list[i], alone.list[i])
    ELSE /\ Prop(alone, "__type") = Str("Object")
         /\ Prop(together, "__type") # Str("Object")

\* C30: a find with several include paths that share a prefix is answered,
\* and each result holds an expanded object wherever the find with that path
\* alone holds one, for paths through a pointer and through a list of
\* pointers.
C30_IncludesCompose ==
    \A clause \in IncSingleClauses \cup IncListClauses :
        LET r == GetNow(FindOf(IncClass, IncQuery(clause)))
        IN /\ r.outcome = "ok"
           /\ \A k \in 1..Len(clause) :
                 LET single == GetNow(FindOf(IncClass, IncQuery(<<clause[k]>>)))
                 IN /\ single.outcome = "ok"
                    /\ Len(Results(r)) = Len(Results(single))
                    /\ \A i \in 1..Len(Results(r)) :
                          ~Discards(At(Results(r)[i], clause[k]),
                                    At(Results(single)[i], clause[k]))

\* A pointer to a record that the store does not hold
IsDangling(v) ==
    /\ IsPlainObject(v) /\ Get(v, "__type") = Str("Pointer")
    /\ \E c \in Classes : Get(v, "className") = Str(c) /\ IsStr(Get(v, "objectId"))
                           /\ v["objectId"].str \notin DOMAIN db[c]

RECURSIVE StoredAt(_, _)
\* What the store holds at a path from a record, each pointer on the way
\* followed to its record
StoredAt(object, path) ==
    IF path = <<>> THEN object
    ELSE LET target == Prop(object, Head(path))
         IN IF Tail(path) = <<>> THEN target
            ELSE IF IsPlainObject(target) /\ Get(target, "__type") = Str("Pointer")
            THEN StoredAt(Get(getCollection(db, target["className"].str),
                              target["objectId"].str), Tail(path))
            ELSE StoredAt(target, Tail(path))

\* The result of a find that belongs to the stored record id
ResultOf(r, id) ==
    LET hits == {i \in 1..Len(Results(r)) : Get(Results(r)[i], "objectId") = Str(id)}
    IN IF hits = {} THEN Undefined ELSE Results(r)[CHOOSE i \in hits : TRUE]

IncPointerClauses == IncSingleClauses \cup {<<(<<"b">>)>>, <<(<<"b", "a1">>)>>, <<(<<"a1">>)>>}
IncPointerKeys == {"b", "a1", "a2"}

\* C31: a find whose include paths run through pointers is answered, and
\* wherever a path reaches a pointer whose record is not stored the result
\* holds nothing at that place (neither the pointer nor an object); a find
\* without include returns such a pointer as it is stored.
C31_MissingIncludeIsAbsent ==
    /\ \A clause \in IncPointerClauses :
          LET r == GetNow(FindOf(IncClass, IncQuery(clause)))
          IN /\ r.outcome = "ok"
             /\ \A id \in DOMAIN db[IncClass] : \A k \in 1..Len(clause) :
                   \A n \in 1..Len(clause[k]) :
                      LET prefix == SubSeq(clause[k], 1, n)
                      IN IsDangling(StoredAt(db[IncClass][id], prefix))
                            => IsUndefined(At(ResultOf(r, id), prefix))
    /\ LET r == GetNow(FindOf(IncClass, [where |-> EmptyObj]))
       IN /\ r.outcome = "ok"
          /\ \A id \in DOMAIN db[IncClass] : \A key \in IncPointerKeys :
                IsDangling(Get(db[IncClass][id], key))
                   => Get(ResultOf(r, id), key) = db[IncClass][id][key]

\* The last request was a find including b and b.a1, record 3 is gone, and
\* the result for record 4 holds nothing at b
C31_Witness ==
    /\ resp.method = "GET" /\ resp.outcome = "ok"
    /\ resp.data = IncQuery(<<(<<"b">>), (<<"b", "a1">>), (<<"b", "a2">>)>>)
    /\ "3" \notin DOMAIN db[IncClass]
    /\ \E i \in 1..Len(resp.response["results"].list) :
          LET m == resp.response["results"].list[i]
          IN Get(m, "objectId") = Str("4") /\ IsUndefined(Get(m, "b"))

\* ------------------------------------------------------------------------
\* Properties of pagination
\* ------------------------------------------------------------------------
\* The ids of the stored records that a where clause of PageWheres matches,
\* read off the records
PageMatching(where) ==
    {id \in DOMAIN db[PageClass] :
        \A key \in DOMAIN where : Get(db[PageClass][id], key) = where[key]}

\* Ids come from a counter that only grows, so the order of creation is the
\* ascending order of the ids
InCreationOrder(ids) ==
    CHOOSE seq \in [1..Cardinality(ids) -> ids] :
        \A i, j \in 1..Cardinality(ids) : i < j => NumeralOf(seq[i]) < NumeralOf(seq[j])

ResultIds(r) == [i \in 1..Len(Results(r)) |-> Get(Results(r)[i], "objectId")]

\* C32: a find with limit L > 0 and skip S returns the matching records at
\* positions S+1 .. S+L of the creation order, whatever was updated or
\* deleted before.
C32_WindowInCreationOrder ==
    \A w \in PageWheres, l \in PageLimits, s \in PageSkips \cup {0} :
        LET q == Assign([where |-> w, limit |-> Num(l)],
                        IF s = 0 THEN EmptyObj ELSE [skip |-> Num(s)])
            r == GetNow(FindOf(PageClass, q))
            order == InCreationOrder(PageMatching(w))
            last == IF s + l < Len(order) THEN s + l ELSE Len(order)
        IN /\ r.outcome = "ok"
           /\ ResultIds(r) = [i \in 1..(IF last > s THEN last - s ELSE 0) |-> Str(order[s + i])]

\* Three records were created, the first was updated since, and the last
\* find, with limit 1 and skip 1, returned exactly the second
C32_Witness ==
    /\ resp.method = "GET" /\ resp.outcome = "ok"
    /\ resp.data = [where |-> EmptyObj, limit |-> Num(1), skip |-> Num(1)]
    /\ DOMAIN db[PageClass] = PageIds
    /\ db[PageClass]["1"]["name"] = Str("b") /\ db[PageClass]["2"]["name"] = Str("a")
    /\ ResultIds(resp) = <<Str("2")>>

\* C33: a find without a limit returns at most DEFAULT_LIMIT records, and a
\* find with a limit returns at most the smaller of that limit and
\* HARD_LIMIT.
C33_WindowSizesEnforced ==
    /\ LET r == GetNow(FindOf(WinClass, [where |-> EmptyObj]))
       IN r.outcome = "ok" /\ Len(Results(r)) <= DEFAULT_LIMIT
    /\ \A l \in WinLimits :
          LET r == GetNow(FindOf(WinClass, [where |-> EmptyObj, limit |-> Num(l)]))
          IN /\ r.outcome = "ok"
             /\ Len(Results(r)) <= (IF l < HARD_LIMIT THEN l ELSE HARD_LIMIT)

\* ------------------------------------------------------------------------
\* Properties of fields that a record lacks
\* ------------------------------------------------------------------------
\* Where clauses on fields that some items lack: a scalar, an operator
\* mapping and a mapping with a literal sub-key
ScalarWhere == [price |-> Num(5)]
OperatorWhere == [price |-> Constraint("$lt", Num(5))]
SubKeyWhere == [info |-> [name |-> Str("a")]]
\* the items related to the first brand through a relation it never held
UnsetRelationWhere == "$relatedTo" :> [object |-> BrandA, key |-> Str("items")]

\* C34: a find constraining a field that some record lacks is answered, and
\* returns exactly the records that hold the field with a matching value: for
\* a scalar, for an operator mapping, for a mapping with a literal sub-key,
\* and, with $relatedTo on an owner whose relation was never set, no record.
C34_AbsentFieldNeverRaises ==
    /\ Finds(QryClass, ScalarWhere, StoredWith(QryClass, "price", LAMBDA v : v = Num(5)))
    /\ Finds(QryClass, OperatorWhere,
             StoredWith(QryClass, "price", LAMBDA v : IsNum(v) /\ v.num < 5))
    /\ Finds(QryClass, SubKeyWhere,
             StoredWith(QryClass, "info", LAMBDA v : Prop(v, "name") = Str("a")))
    /\ Finds(QryClass, UnsetRelationWhere, {})

\* ------------------------------------------------------------------------
\* Properties of the order of hook, operators and commit
\* ------------------------------------------------------------------------
\* The error field of the draft of an Update once its operators are applied,
\* read off the payload and the stored record
ErrorAfterOps(request) ==
    LET data == request.data
    IN IF "error" \notin DOMAIN data
       THEN Get(db[request.className][request.objectId], "error")
       ELSE IF data["error"] = DeleteOp THEN Undefined ELSE data["error"]

\* C35: with beforeSave registered, a Create is rejected exactly when the
\* payload as sent makes the hook reject, and a rejected Create has handed
\* out no id, recorded no operator and stored nothing; an Update is rejected
\* exactly when the draft after its operators makes the hook reject, and a
\* rejected Update has stored nothing, while an accepted one stores the
\* record.
C35_HookOrder ==
    Registered(OrdClass, "beforeSave") =>
       /\ \A request \in OrdPostRequests :
             LET e == PostNow(request)
             IN /\ (e.outcome = "rejected") <=> Truthy(Get(request.data, "error"))
                /\ e.outcome = "rejected" =>
                      e.idCounter = idCounter /\ e.masks = masks /\ e.db = db
                /\ e.outcome # "rejected" =>
                      /\ e.idCounter = idCounter + 1
                      /\ DOMAIN e.db[OrdClass] = DOMAIN db[OrdClass] \cup {uniqueId(idCounter)}
       /\ \A request \in OrdPutRequests :
             Stored(request) =>
                LET e == PutNow(request)
                IN /\ (e.outcome = "rejected") <=> Truthy(ErrorAfterOps(request))
                   /\ e.outcome = "rejected" => e.db = db
                   /\ e.outcome = "ok" =>
                         e.db[OrdClass][request.objectId]["updatedAt"] = DateObj(clock)

\* A record that was stored with nothing but error = true, before the hook
\* was registered, has just been updated with error: Delete, and the hook,
\* run on the draft without error, let the Update through
C35_Witness ==
    /\ Registered(OrdClass, "beforeSave")
    /\ resp.method = "PUT" /\ resp.outcome = "ok"
    /\ resp.data = [error |-> DeleteOp]
    /\ DOMAIN db[OrdClass][resp.objectId] = IdFields

\* ------------------------------------------------------------------------
\* Properties of the out-of-band results
\* ------------------------------------------------------------------------
\* What a find is answered when no earlier call has left anything behind
GetFresh(request) ==
    handleGetRequest(request, db, masks, hooks, idCounter, clock, Null, Null)

\* C36: a find, with redirectClassNameForKey or without, ends as it would
\* with nothing left behind by earlier calls, with the same response, and
\* every record it returns is stored.
C36_ReadIgnoresEarlierReads ==
    \A request \in RelFindRequests :
        LET r == GetNow(request)
        IN /\ r.outcome = GetFresh(request).outcome
           /\ r.response = GetFresh(request).response
           /\ (r.outcome = "ok" /\ HasResults(r)) =>
                 \A i \in 1..Len(Results(r)) :
                    \E id \in DOMAIN db[RelClass] : Get(Results(r)[i], "objectId") = Str(id)

\* ------------------------------------------------------------------------
\* Properties of deletes during a deferred hook
\* ------------------------------------------------------------------------
\* C37: when the hook of a suspended Update resolves and the record it
\* addresses has been deleted meanwhile, the callback leaves the record
\* deleted.
C37_DeletedStaysDeleted ==
    \A p \in pending :
        (~p.settle.rejected /\ p.request.objectId \notin DOMAIN db[p.request.className]) =>
            p.request.objectId \notin
                DOMAIN PutCommitted(p, db, masks, idCounter).db[p.request.className]

\* ------------------------------------------------------------------------
\* Properties of writes that fail
\* ------------------------------------------------------------------------
\* applyOps raises on the draft of this Create
CreateOpsThrow(request) ==
    LET ex == extractOps(request.data)
    IN applyOps(NewObject(ex.data, uniqueId(idCounter), clock), ex.ops,
                request.className, masks).threw

\* applyOps raises on the draft of this Update of a stored record
UpdateOpsThrow(request) ==
    /\ request.objectId \in DOMAIN db[request.className]
    /\ PutDraft(request, db, masks, clock).threw

\* C38: a Create or an Update in which an operator raises, on an unknown
\* operator name or on an array operator whose field holds no list, ends
\* with an exception and leaves every collection as it was.
C38_FailedWriteStoresNothing ==
    /\ \A request \in FailPostRequests :
          CreateOpsThrow(request) =>
             PostNow(request).outcome = "threw" /\ PostNow(request).db = db
    /\ \A request \in OpsPutRequests :
          UpdateOpsThrow(request) =>
             PutNow(request).outcome = "threw" /\ PutNow(request).db = db

\* A Create has just failed on an array operator and, in another trace, an
\* Update on an unknown operator that followed an operator that succeeded
C38_Witness ==
    /\ resp.method \in {"POST", "PUT"}
    /\ resp.outcome = "threw"
    /\ \/ resp.method = "POST" /\ resp.data = ("objectId" :> AddOp(<<Num(1)>>))
       \/ resp.method = "PUT" /\ resp.data = (OpsKey :> AddOp(<<Num(1)>>)) @@ ("name" :> BogusOp)
    /\ \E request \in FailPostRequests : CreateOpsThrow(request)
    /\ \E request \in OpsPutRequests : UpdateOpsThrow(request)

\* ------------------------------------------------------------------------
\* Properties of what an Update leaves alone
\* ------------------------------------------------------------------------
\* d2 differs from d at most in the fields keys of the record id of className
ChangesOnly(d, d2, className, id, keys) ==
    /\ DOMAIN d2 = DOMAIN d
    /\ \A c \in DOMAIN d :
          /\ DOMAIN d2[c] = DOMAIN d[c]
          /\ \A i \in DOMAIN d[c] :
                IF c = className /\ i = id
                THEN \A key \in (DOMAIN d[c][i] \cup DOMAIN d2[c][i]) \ keys :
                        Get(d2[c][i], key) = Get(d[c][i], key)
                ELSE d2[c][i] = d[c][i]

\* C39: an Update that succeeds, its hook settling within the call, changes
\* in the whole store only the record it addresses, and in that record only
\* the fields of its payload and updatedAt.
C39_UpdateFrame ==
    \A request \in FramePutRequests :
        LET e == PutNow(request)
        IN (Stored(request) /\ e.outcome = "ok") =>
              ChangesOnly(db, e.db, request.className, request.objectId,
                          DOMAIN request.data \cup {"updatedAt"})

\* An Update has just succeeded on a record that holds a field its payload
\* does not name, with another record stored in the same class and one in
\* the other class, at a time later than the record's last write
C39_Witness ==
    /\ resp.method = "PUT" /\ resp.outcome = "ok" /\ resp.status = 200
    /\ "name" \notin DOMAIN resp.data
    /\ "name" \in DOMAIN db[resp.className][resp.objectId]
    /\ db[resp.className][resp.objectId]["updatedAt"] = DateObj(clock)
    /\ clock > 0
    /\ \E id \in DOMAIN db[resp.className] : id # resp.objectId
    /\ \E c \in Classes \ {resp.className} : db[c] # EmptyObj
====
